---------------------------- MODULE Spec2Model ----------------------------
(***************************************************************************)
(* A model of the panopticon transfer planner: the result comparator       *)
(* (bestTransferResult), the two-burn transfer evaluator                   *)
(* (solveTwoBurnLambertTransfer), the grid search engine                   *)
(* (computePorkchopGrid) and the React hook that runs a sweep in a worker  *)
(* (usePorkchop).                                                          *)
(*                                                                         *)
(* JavaScript numbers are modelled as extended rationals <<n, d>>:         *)
(*   d > 0          the finite value n/d, in lowest terms                  *)
(*   <<1, 0>>       +Infinity                                              *)
(*   <<-1, 0>>      -Infinity                                              *)
(*   <<0, 0>>       NaN                                                    *)
(* Arithmetic follows IEEE 754 for the special values (x/0, 0*Infinity,    *)
(* Infinity-Infinity, comparisons with NaN); finite arithmetic is exact,   *)
(* i.e. rounding is not modelled.  Zero is always +0.                      *)
(***************************************************************************)
EXTENDS Integers, Sequences, FiniteSets, TLC

VARIABLES
    revision,   \* which revision of transfer.ts is linked in
    cmpPc,      \* comparator harness: "ready" | "done"
    cmpA,       \* first argument of bestTransferResult (or NULL)
    cmpB,       \* second argument of bestTransferResult (or NULL)
    cmpAccel,   \* fleetAcceleration_mps2
    cmpOut,     \* the value bestTransferResult returned
    evPc,       \* evaluator harness: "ready" | "done"
    evInput,    \* the TwoBurnTransferInput, with what the kernels return for it
    evOut,      \* the TwoBurnTransferSolution the evaluator returned
    gridPc,     \* grid engine harness: "ready" | "done"
    gridInput,  \* the TransferInputs, with what the ephemeris gives for them
    gridRun,    \* what computePorkchopGrid returned, and its local N
    hookPc,     \* usePorkchop: "mounted" | "unmounted"
    hookInputs, \* the hook's `inputs` argument: 0 for null, else an index
    hookResult, \* the hook's `result` state, with the worker it came from
    isComputing,\* the hook's `isComputing` state
    workerRef,  \* workerRef.current: 0 for null, else a worker
    workers,    \* the workers created so far
    slvPc,      \* solver loop: "loop" | "returned"
    slvKind,    \* which solver's iteration runs
    slvIter,    \* the loop counter (i, iter)
    slvSteps,   \* how many times the loop body has run
    slvIterate, \* whether the iterate (E, H, x, (u, v, w, z)) is finite
    detCatalog, \* the body and orbit catalogs the caller holds (an index)
    detLog,     \* the calls of computePorkchopGrid made so far
    kepPc,      \* solveKepler: "ready" | "loop" | "done"
    kepM,       \* the mean anomaly passed to solveKepler, in units of pi
    kepEcc,     \* the eccentricity passed to solveKepler
    kepIter,    \* solveKepler's loop counter i
    kepOut,     \* solveKepler's E, in units of pi; the returned anomaly at "done"
    rmPc,       \* remapHybridInput: "ready" | "loop" | "source" | "destination"
                \*   (sampling that endpoint) | "compare" | "returned"
    rmOptions,  \* remapWindow_s, remapSamples, remapIterations of hybridRemap
    rmIter,     \* remapHybridInput's loop counter iter
    rmRounds,   \* how many times the loop has re-solved Lambert
    rmI,        \* sampleBestAlignedState's loop counter i
    rmCalls,    \* the stateAtTime calls of the sampleBestAlignedState call so far
    rmSampled,  \* the stateAtTime calls of each finished sampleBestAlignedState call
    rmSettled,  \* the last round moved both endpoints by less than 60 s
    rmOut       \* what remapHybridInput returned: "none" | "null" | "input"

cmpVars == <<cmpPc, cmpA, cmpB, cmpAccel, cmpOut>>
evVars == <<evPc, evInput, evOut>>
gridVars == <<gridPc, gridInput, gridRun>>
hookVars == <<hookPc, hookInputs, hookResult, isComputing, workerRef, workers>>
slvVars == <<slvPc, slvKind, slvIter, slvSteps, slvIterate>>
detVars == <<detCatalog, detLog>>
kepVars == <<kepPc, kepM, kepEcc, kepIter, kepOut>>
rmVars == <<rmPc, rmOptions, rmIter, rmRounds, rmI, rmCalls, rmSampled, rmSettled, rmOut>>

-----------------------------------------------------------------------------
(* Bounds of the model *)

MaxPayload == 2      \* payloads value, value2 range over 0..MaxPayload
MaxAccel == 2        \* fleet acceleration ranges over 0..MaxAccel
MaxThirdPayload == 1 \* payloads of the third result in the transitivity check
MaxWorkers == 3      \* compute() creates at most MaxWorkers workers
MaxCalls == 3        \* computePorkchopGrid is called at most MaxCalls times in a row
MaxQuarterTurns == 16 \* mean anomalies range over -MaxQuarterTurns/4 .. MaxQuarterTurns/4 times pi

-----------------------------------------------------------------------------
(* JavaScript numbers *)

NaN == <<0, 0>>
PosInf == <<1, 0>>
NegInf == <<-1, 0>>

Abs(i) == IF i < 0 THEN -i ELSE i
Sign(i) == IF i < 0 THEN -1 ELSE IF i > 0 THEN 1 ELSE 0

RECURSIVE GCD(_, _)
GCD(a, b) == IF b = 0 THEN a ELSE GCD(b, a % b)

Norm(n, d) ==
    IF d = 0 THEN <<Sign(n), 0>>
    ELSE IF n = 0 THEN <<0, 1>>
    ELSE LET g == GCD(Abs(n), Abs(d))
         IN  <<(Sign(d) * n) \div g, Abs(d) \div g>>

Num(i) == <<i, 1>>
Frac(n, d) == Norm(n, d)
Zero == Num(0)
One == Num(1)

IsNaN(x) == x = NaN
IsInf(x) == x[2] = 0 /\ x[1] # 0
IsFinite(x) == x[2] # 0            \* Number.isFinite

NumNeg(x) == <<-x[1], x[2]>>

LCM(a, b) == (a \div GCD(a, b)) * b

\* Sums and products cancel common factors before multiplying, so that the
\* intermediate integers stay small.
NumAdd(x, y) ==
    IF IsNaN(x) \/ IsNaN(y) THEN NaN
    ELSE IF IsInf(x) THEN (IF IsInf(y) /\ y # x THEN NaN ELSE x)
    ELSE IF IsInf(y) THEN y
    ELSE LET d == LCM(x[2], y[2])
         IN  Norm(x[1] * (d \div x[2]) + y[1] * (d \div y[2]), d)

NumSub(x, y) == NumAdd(x, NumNeg(y))

NumMul(x, y) ==
    IF IsNaN(x) \/ IsNaN(y) THEN NaN
    ELSE IF IsInf(x) \/ IsInf(y) THEN <<Sign(x[1]) * Sign(y[1]), 0>>
    ELSE IF x[1] = 0 \/ y[1] = 0 THEN Zero
    ELSE LET g1 == GCD(Abs(x[1]), y[2])
             g2 == GCD(Abs(y[1]), x[2])
         IN  Norm((x[1] \div g1) * (y[1] \div g2), (x[2] \div g2) * (y[2] \div g1))

NumDiv(x, y) ==
    IF IsNaN(x) \/ IsNaN(y) THEN NaN
    ELSE IF IsInf(y) THEN (IF IsInf(x) THEN NaN ELSE Zero)
    ELSE IF y[1] = 0 THEN <<Sign(x[1]), 0>>          \* x/0: +-Infinity, 0/0: NaN
    ELSE IF IsInf(x) THEN <<x[1] * Sign(y[1]), 0>>
    ELSE NumMul(x, <<Sign(y[1]) * y[2], Abs(y[1])>>)

NumLt(x, y) ==
    /\ ~IsNaN(x)
    /\ ~IsNaN(y)
    /\ x # y
    /\ IF IsInf(x) THEN x = NegInf
       ELSE IF IsInf(y) THEN y = PosInf
       ELSE LET g == GCD(x[2], y[2])
            IN  x[1] * (y[2] \div g) < y[1] * (x[2] \div g)

NumGt(x, y) == NumLt(y, x)
NumLe(x, y) == ~IsNaN(x) /\ ~IsNaN(y) /\ (x = y \/ NumLt(x, y))
NumGe(x, y) == NumLe(y, x)

\* Math.max / Math.min: NaN if either argument is NaN
NumMax(x, y) == IF IsNaN(x) \/ IsNaN(y) THEN NaN ELSE IF NumLt(x, y) THEN y ELSE x
NumMin(x, y) == IF IsNaN(x) \/ IsNaN(y) THEN NaN ELSE IF NumLt(y, x) THEN y ELSE x

\* Math.floor
NumFloor(x) == IF ~IsFinite(x) THEN x ELSE Num(x[1] \div x[2])

NumAbs(x) == <<Abs(x[1]), x[2]>>
Half(x) == NumMul(Frac(1, 2), x)

-----------------------------------------------------------------------------
(* TransferOutcome *)

Success == 0
Fail_InsufficientDV == 1
Fail_ArrivalBeforeLaunch == 2
Fail_LaunchInPast == 3
Fail_CoastPhaseEndsBeforeItStarts == 4
Fail_Parabolic == 5
Fail_Hyperbolic == 6
Fail_HyperbolicMicrothrust == 7
Fail_InsufficientAcceleration == 8
Fail_OrbitPeriod == 9
Fail_ExceedsMaxDuration == 10
Fail_BurnLongerThanTransfer == 11
Fail_BurnLongerThanHalfOrbit == 12
Fail_BurnNaN == 13
Fail_WouldCollideWithBody == 14
Fail_WouldExceedHillRadius == 15
Fail_AttemptedFleetInterceptInMicrothrust == 16
Fail_AttemptedFleetInterceptAfterArrivalAtAsset == 17
Fail_AttemptedFleetInterceptThatWouldCauseTargetingLoop == 18
Fail_CodePathNotImplemented == 19

TransferOutcome == Success .. Fail_CodePathNotImplemented

\* The two revisions of transfer.ts in the repository: the one with the Torch
\* solver and the hybrid remap, and the Lambert-only one.
Revisions == {"torch", "lambert"}

\* null / undefined
NULL == [outcome |-> -1, value |-> Zero, value2 |-> Zero]

makeResult(outcome, value, value2) ==
    [outcome |-> outcome, value |-> value, value2 |-> value2]

\* "no number" returned by the tryGet... functions
NoNumber == <<"null">>

-----------------------------------------------------------------------------
(* Result comparator *)

\* mutant: the wrong payload field is read
tryGetMinimumDVneeded_mps_value2(result) ==
    IF result.outcome = Fail_InsufficientDV THEN result.value2 ELSE NoNumber

tryGetMinimumDVneeded_mps(result) ==
    IF result.outcome = Fail_InsufficientDV THEN result.value ELSE NoNumber

tryGetMinimumAccelerationNeeded(rev, result, fleetAcceleration_mps2) ==
    CASE result.outcome = Fail_BurnLongerThanTransfer ->
            NumMul(fleetAcceleration_mps2, NumDiv(result.value, result.value2))
      [] result.outcome = Fail_LaunchInPast ->
            LET denominator == NumSub(One, NumDiv(result.value, result.value2))
            IN  IF rev = "lambert" /\ denominator = Zero THEN NoNumber
                ELSE NumDiv(fleetAcceleration_mps2, denominator)
      [] result.outcome = Fail_BurnLongerThanHalfOrbit ->
            NumMul(fleetAcceleration_mps2,
                   NumDiv(NumMul(Num(2), result.value), result.value2))
      [] result.outcome = Fail_AttemptedFleetInterceptInMicrothrust ->
            NumDiv(result.value,
                   NumMul(NumMul(Num(2), result.value2), result.value2))
      [] result.outcome = Fail_InsufficientAcceleration ->
            result.value
      [] result.outcome = Fail_CoastPhaseEndsBeforeItStarts ->
            NumMul(fleetAcceleration_mps2, NumDiv(result.value2, result.value))
      [] OTHER -> NoNumber

\* bestTransferResult returns one of its two argument objects, never a copy:
\* the operators below compute which one ("a" or "b").

\* mutant: without the last test, the first argument wins the remaining ties
bestFailureSide_noCatchAll(rev, a, b, fleetAcceleration_mps2) ==
    LET aDv == tryGetMinimumDVneeded_mps(a)
        bDv == tryGetMinimumDVneeded_mps(b)
    IN  IF aDv # NoNumber /\ bDv # NoNumber
        THEN (IF NumLt(aDv, bDv) THEN "a" ELSE "b")
        ELSE IF aDv # NoNumber THEN "a"
        ELSE IF bDv # NoNumber THEN "b"
        ELSE
        LET aAccel == tryGetMinimumAccelerationNeeded(rev, a, fleetAcceleration_mps2)
            bAccel == tryGetMinimumAccelerationNeeded(rev, b, fleetAcceleration_mps2)
        IN  IF aAccel # NoNumber /\ bAccel # NoNumber
            THEN (IF NumLt(aAccel, bAccel) THEN "a" ELSE "b")
            ELSE IF aAccel # NoNumber THEN "a"
            ELSE IF bAccel # NoNumber THEN "b"
            ELSE "a"

\* The comparison of two failures (neither argument null, neither a Success)
bestFailureSide(rev, a, b, fleetAcceleration_mps2) ==
    LET aDv == tryGetMinimumDVneeded_mps(a)
        bDv == tryGetMinimumDVneeded_mps(b)
    IN  IF aDv # NoNumber /\ bDv # NoNumber
        THEN (IF NumLt(aDv, bDv) THEN "a" ELSE "b")
        ELSE IF aDv # NoNumber THEN "a"
        ELSE IF bDv # NoNumber THEN "b"
        ELSE
        LET aAccel == tryGetMinimumAccelerationNeeded(rev, a, fleetAcceleration_mps2)
            bAccel == tryGetMinimumAccelerationNeeded(rev, b, fleetAcceleration_mps2)
        IN  IF aAccel # NoNumber /\ bAccel # NoNumber
            THEN (IF NumLt(aAccel, bAccel) THEN "a" ELSE "b")
            ELSE IF aAccel # NoNumber THEN "a"
            ELSE IF bAccel # NoNumber THEN "b"
            ELSE IF a.outcome = Fail_CodePathNotImplemented THEN "b"
            ELSE "a"

\* mutant: the Success test on the second argument is missing
bestTransferSide_noSuccessB(rev, a, b, fleetAcceleration_mps2) ==
    IF b = NULL THEN "a"
    ELSE IF a = NULL THEN "b"
    ELSE IF a.outcome = Success THEN "a"
    ELSE bestFailureSide(rev, a, b, fleetAcceleration_mps2)

\* mutant: the null tests return the null argument
bestTransferSide_nullSwapped(rev, a, b, fleetAcceleration_mps2) ==
    IF b = NULL THEN "b"
    ELSE IF a = NULL THEN "a"
    ELSE IF a.outcome = Success THEN "a"
    ELSE IF b.outcome = Success THEN "b"
    ELSE bestFailureSide(rev, a, b, fleetAcceleration_mps2)

bestTransferSide(rev, a, b, fleetAcceleration_mps2) ==
    IF b = NULL THEN "a"
    ELSE IF a = NULL THEN "b"
    ELSE IF a.outcome = Success THEN "a"
    ELSE IF b.outcome = Success THEN "b"
    ELSE bestFailureSide(rev, a, b, fleetAcceleration_mps2)

bestTransferResult(rev, a, b, fleetAcceleration_mps2) ==
    IF bestTransferSide(rev, a, b, fleetAcceleration_mps2) = "a" THEN a ELSE b

-----------------------------------------------------------------------------
(* Two-burn transfer evaluator                                              *)
(*                                                                          *)
(* The numerical kernels (solveLambert, cartesianToOrbitalElements,         *)
(* wouldCollideWithBarycenter, orbitalPeriodSeconds, the Torch Newton       *)
(* iteration, the hybrid remap's sampling) are not computed: what they      *)
(* return is part of the evaluator's input, drawn from bounded sets.  The   *)
(* control flow that turns those values into a TwoBurnTransferSolution is   *)
(* modelled statement by statement.                                         *)

\* transferOrbit: null
NoOrbit ==
    [isNull |-> TRUE, eccentricity |-> Zero, meanAnomalyFinite |-> FALSE,
     periapsis_m |-> Zero, collides |-> FALSE, periodLong |-> FALSE, period_s |-> Zero]

\* solveLambert(...) = null
NoLambert ==
    [isNull |-> TRUE, burn0 |-> Zero, burn1 |-> Zero, totalDV |-> Zero, orbit |-> NoOrbit]

\* approximately(a, b): |a - b| <= 1e-6 * max(1, |a|, |b|)
approximately(a, b) ==
    LET diff == NumAbs(NumSub(a, b))
        largest == NumMax(One, NumMax(NumAbs(a), NumAbs(b)))
    IN  NumLe(NumMul(diff, Num(1000000)), largest)

\* mutant: the primary branch is the one with the larger total
chooseLambert_larger(rev, prograde, retrograde) ==
    IF prograde.isNull /\ retrograde.isNull
    THEN [primary |-> NoLambert, secondary |-> NoLambert]
    ELSE IF ~prograde.isNull /\ retrograde.isNull
    THEN [primary |-> prograde, secondary |-> NoLambert]
    ELSE IF prograde.isNull /\ ~retrograde.isNull
    THEN [primary |-> retrograde, secondary |-> NoLambert]
    ELSE IF NumGt(prograde.totalDV, retrograde.totalDV)
    THEN [primary |-> prograde, secondary |-> retrograde]
    ELSE [primary |-> retrograde, secondary |-> prograde]

\* The Torch revision compares with <, the Lambert-only revision with <=.
chooseLambert(rev, prograde, retrograde) ==
    IF prograde.isNull /\ retrograde.isNull
    THEN [primary |-> NoLambert, secondary |-> NoLambert]
    ELSE IF ~prograde.isNull /\ retrograde.isNull
    THEN [primary |-> prograde, secondary |-> NoLambert]
    ELSE IF prograde.isNull /\ ~retrograde.isNull
    THEN [primary |-> retrograde, secondary |-> NoLambert]
    ELSE IF (IF rev = "torch"
             THEN NumLt(prograde.totalDV, retrograde.totalDV)
             ELSE NumLe(prograde.totalDV, retrograde.totalDV))
    THEN [primary |-> prograde, secondary |-> retrograde]
    ELSE [primary |-> retrograde, secondary |-> prograde]

Solution(result, launch, arrival, transit, boostDV, decelDV, totalDV, boostT, decelT, orbit) ==
    [result |-> result,
     launchTime_s |-> launch,
     arrivalTime_s |-> arrival,
     transitDuration_s |-> transit,
     boostDV_mps |-> boostDV,
     decelDV_mps |-> decelDV,
     totalDV_mps |-> totalDV,
     boostBurnTime_s |-> boostT,
     decelBurnTime_s |-> decelT,
     transferOrbit |-> orbit]

\* mutant: the transit duration is taken to be the arrival time
emptySolution_arrival(input, result) ==
    Solution(result, input.launchTime_s, input.arrivalTime_s, input.arrivalTime_s,
             Zero, Zero, Zero, Zero, Zero, NoOrbit)

\* A solution with the input's times, no burns and no orbit
emptySolution(input, result) ==
    Solution(result, input.launchTime_s, input.arrivalTime_s,
             NumSub(input.arrivalTime_s, input.launchTime_s),
             Zero, Zero, Zero, Zero, Zero, NoOrbit)

isSuccess(solution) == solution.result.outcome = Success

\* mutant: a Success keeps the launch and arrival time of the input
lambertBurns_unshifted(input, transitDuration_s, selected, transferOrbit) ==
    LET boostDV_mps == selected.burn0
        decelDV_mps == selected.burn1
        totalDV_mps == NumAdd(boostDV_mps, decelDV_mps)
        boostBurnTime_s == NumDiv(boostDV_mps, input.fleetAcceleration_mps2)
        decelBurnTime_s == NumDiv(decelDV_mps, input.fleetAcceleration_mps2)
        burns == NumAdd(boostBurnTime_s, decelBurnTime_s)
    IN  IF NumLt(NumMul(Num(2), transitDuration_s), burns)
        THEN Solution(makeResult(Fail_BurnLongerThanTransfer, Half(burns), transitDuration_s),
                      input.launchTime_s, input.arrivalTime_s, transitDuration_s,
                      boostDV_mps, decelDV_mps, totalDV_mps,
                      boostBurnTime_s, decelBurnTime_s, transferOrbit)
        ELSE IF IsNaN(boostBurnTime_s) \/ IsNaN(decelBurnTime_s)
        THEN Solution(makeResult(Fail_BurnNaN, Zero, Zero),
                      input.launchTime_s, input.arrivalTime_s, transitDuration_s,
                      boostDV_mps, decelDV_mps, totalDV_mps,
                      boostBurnTime_s, decelBurnTime_s, transferOrbit)
        ELSE Solution(makeResult(Success, Zero, Zero),
                      input.launchTime_s, input.arrivalTime_s, transitDuration_s,
                      boostDV_mps, decelDV_mps, totalDV_mps,
                      boostBurnTime_s, decelBurnTime_s, transferOrbit)

\* The burns of the selected Lambert branch (solvePureLambertTransfer from
\* `const boostDV_mps = vecMag(selected.burn0)` on)
lambertBurns(input, transitDuration_s, selected, transferOrbit) ==
    LET boostDV_mps == selected.burn0
        decelDV_mps == selected.burn1
        totalDV_mps == NumAdd(boostDV_mps, decelDV_mps)
        boostBurnTime_s == NumDiv(boostDV_mps, input.fleetAcceleration_mps2)
        decelBurnTime_s == NumDiv(decelDV_mps, input.fleetAcceleration_mps2)
        burns == NumAdd(boostBurnTime_s, decelBurnTime_s)
    IN  IF NumLt(NumMul(Num(2), transitDuration_s), burns)
        THEN Solution(makeResult(Fail_BurnLongerThanTransfer, Half(burns), transitDuration_s),
                      input.launchTime_s, input.arrivalTime_s, transitDuration_s,
                      boostDV_mps, decelDV_mps, totalDV_mps,
                      boostBurnTime_s, decelBurnTime_s, transferOrbit)
        ELSE IF IsNaN(boostBurnTime_s) \/ IsNaN(decelBurnTime_s)
        THEN Solution(makeResult(Fail_BurnNaN, Zero, Zero),
                      input.launchTime_s, input.arrivalTime_s, transitDuration_s,
                      boostDV_mps, decelDV_mps, totalDV_mps,
                      boostBurnTime_s, decelBurnTime_s, transferOrbit)
        ELSE Solution(makeResult(Success, Zero, Zero),
                      NumSub(input.launchTime_s, Half(boostBurnTime_s)),
                      NumAdd(input.arrivalTime_s, Half(decelBurnTime_s)),
                      transitDuration_s,
                      boostDV_mps, decelDV_mps, totalDV_mps,
                      boostBurnTime_s, decelBurnTime_s, transferOrbit)

\* The collision, period and burn checks on the branch finally selected
\* (solvePureLambertTransfer from `if (collides)` on)
lambertAfterSelection(rev, input, transitDuration_s, selected, collides, firstAttemptPeriapsis_m) ==
    LET transferOrbit == selected.orbit
    IN  IF collides
        THEN emptySolution(input,
                makeResult(Fail_WouldCollideWithBody,
                    IF rev = "torch"
                    THEN NumMax(firstAttemptPeriapsis_m, transferOrbit.periapsis_m)
                    ELSE NumMax(transferOrbit.periapsis_m, input.barycenterMeanRadius_m),
                    input.barycenterMeanRadius_m))
        ELSE IF NumLt(transferOrbit.eccentricity, One) /\ transferOrbit.periodLong
        THEN Solution(makeResult(Fail_OrbitPeriod, transferOrbit.period_s,
                                 transferOrbit.eccentricity),
                      input.launchTime_s, input.arrivalTime_s, transitDuration_s,
                      Zero, Zero, Zero, Zero, Zero, transferOrbit)
        ELSE lambertBurns(input, transitDuration_s, selected, transferOrbit)

\* The early exits on a branch's transfer orbit: "" when it passes
orbitRejection(transferOrbit) ==
    IF ~transferOrbit.meanAnomalyFinite THEN "notImplemented"
    ELSE IF approximately(transferOrbit.eccentricity, One) THEN "parabolic"
    ELSE ""

orbitRejected(input, transferOrbit) ==
    IF orbitRejection(transferOrbit) = "notImplemented"
    THEN emptySolution(input, makeResult(Fail_CodePathNotImplemented, Zero, Zero))
    ELSE emptySolution(input, makeResult(Fail_Parabolic, transferOrbit.eccentricity, Zero))

\* mutant: a colliding primary branch is final, the fallback is never tried
solvePureLambertTransfer_noFallback(rev, input) ==
    LET transitDuration_s == NumSub(input.arrivalTime_s, input.launchTime_s)
        chosen == chooseLambert(rev, input.prograde, input.retrograde)
        primary == chosen.primary
    IN  IF NumLe(transitDuration_s, Zero)
        THEN emptySolution(input, makeResult(Fail_ArrivalBeforeLaunch, transitDuration_s, Zero))
        ELSE IF primary.isNull
        THEN emptySolution(input, makeResult(Fail_CodePathNotImplemented, Zero, Zero))
        ELSE IF orbitRejection(primary.orbit) # ""
        THEN orbitRejected(input, primary.orbit)
        ELSE lambertAfterSelection(rev, input, transitDuration_s, primary,
                                   primary.orbit.collides, primary.orbit.periapsis_m)

solvePureLambertTransfer(rev, input) ==
    LET transitDuration_s == NumSub(input.arrivalTime_s, input.launchTime_s)
        chosen == chooseLambert(rev, input.prograde, input.retrograde)
        primary == chosen.primary
        secondary == chosen.secondary
    IN  IF NumLe(transitDuration_s, Zero)
        THEN emptySolution(input, makeResult(Fail_ArrivalBeforeLaunch, transitDuration_s, Zero))
        ELSE IF primary.isNull
        THEN emptySolution(input, makeResult(Fail_CodePathNotImplemented, Zero, Zero))
        ELSE IF orbitRejection(primary.orbit) # ""
        THEN orbitRejected(input, primary.orbit)
        ELSE IF primary.orbit.collides /\ ~secondary.isNull
        THEN IF orbitRejection(secondary.orbit) # ""
             THEN orbitRejected(input, secondary.orbit)
             ELSE lambertAfterSelection(rev, input, transitDuration_s, secondary,
                                        secondary.orbit.collides, primary.orbit.periapsis_m)
        ELSE lambertAfterSelection(rev, input, transitDuration_s, primary,
                                   primary.orbit.collides, primary.orbit.periapsis_m)

\* The test after the Newton loop of solveTorchTransfer: the last squared
\* residual is larger than the first (the seed's) or is not finite
newtonRejected(firstError, currentError) ==
    \/ NumGt(currentError, firstError)
    \/ ~IsFinite(currentError)
    \/ IsNaN(currentError)

\* solveTorchTransfer.  input.torch holds what the seed selection and the
\* Newton iteration produce: the seed used ("primary", "secondary" or
\* "linear"; only the first two set hasFallback), the squared residual of
\* the first pass (firstError) and of the last (currentError), and the burn
\* magnitudes that the seed values and the Newton values of (u, v, w, z)
\* give.
solveTorchTransfer(input) ==
    LET transitDuration_s == NumSub(input.arrivalTime_s, input.launchTime_s)
        torch == input.torch
        hasFallback == torch.seed # "linear"
        useSeed == newtonRejected(torch.firstError, torch.currentError)
        boostDV_mps == IF useSeed THEN torch.seedBoost ELSE torch.newtonBoost
        decelDV_mps == IF useSeed THEN torch.seedDecel ELSE torch.newtonDecel
        totalDV_mps == NumAdd(boostDV_mps, decelDV_mps)
        boostBurnTime_s == NumDiv(boostDV_mps, input.fleetAcceleration_mps2)
        decelBurnTime_s == NumDiv(decelDV_mps, input.fleetAcceleration_mps2)
        burns == NumAdd(boostBurnTime_s, decelBurnTime_s)
    IN  IF NumLe(transitDuration_s, Zero)
        THEN emptySolution(input, makeResult(Fail_ArrivalBeforeLaunch, transitDuration_s, Zero))
        ELSE IF ~IsFinite(input.fleetAcceleration_mps2)
                \/ NumLe(input.fleetAcceleration_mps2, Zero)
        THEN emptySolution(input, makeResult(Fail_InsufficientAcceleration, Zero, Zero))
        ELSE IF useSeed /\ ~hasFallback
        THEN emptySolution(input, makeResult(Fail_CodePathNotImplemented, Zero, Zero))
        ELSE IF ~IsFinite(boostBurnTime_s) \/ ~IsFinite(decelBurnTime_s)
        THEN [emptySolution(input, makeResult(Fail_CodePathNotImplemented, Zero, Zero))
                EXCEPT !.boostDV_mps = boostDV_mps, !.decelDV_mps = decelDV_mps,
                       !.totalDV_mps = totalDV_mps,
                       !.boostBurnTime_s = boostBurnTime_s,
                       !.decelBurnTime_s = decelBurnTime_s]
        ELSE IF NumGt(burns, transitDuration_s)
        THEN [emptySolution(input,
                    makeResult(Fail_BurnLongerThanTransfer, burns, transitDuration_s))
                EXCEPT !.boostDV_mps = boostDV_mps, !.decelDV_mps = decelDV_mps,
                       !.totalDV_mps = totalDV_mps,
                       !.boostBurnTime_s = boostBurnTime_s,
                       !.decelBurnTime_s = decelBurnTime_s]
        ELSE Solution(makeResult(Success, Zero, Zero),
                      input.launchTime_s, input.arrivalTime_s, transitDuration_s,
                      boostDV_mps, decelDV_mps, totalDV_mps,
                      boostBurnTime_s, decelBurnTime_s, NoOrbit)

bestSolution(rev, lambert, torch, fleetAcceleration_mps2) ==
    IF isSuccess(lambert) THEN lambert
    ELSE IF isSuccess(torch) THEN torch
    ELSE IF bestTransferSide(rev, lambert.result, torch.result, fleetAcceleration_mps2) = "a"
    THEN lambert
    ELSE torch

\* mutant: the first solution is kept whatever the second is
chooseBetterSolution_first(rev, a, b, fleetAcceleration_mps2) == a

chooseBetterSolution(rev, a, b, fleetAcceleration_mps2) ==
    IF isSuccess(a) /\ isSuccess(b)
    THEN (IF NumLe(a.totalDV_mps, b.totalDV_mps) THEN a ELSE b)
    ELSE IF isSuccess(a) THEN a
    ELSE IF isSuccess(b) THEN b
    ELSE IF bestTransferSide(rev, a.result, b.result, fleetAcceleration_mps2) = "a"
    THEN a
    ELSE b

computeHybridDVCorrection_kps(rawDV_kps, transitGainDays) ==
    LET base == IF NumLt(rawDV_kps, Num(20))
                THEN NumMax(Zero, NumSub(NumMul(Frac(17, 100), rawDV_kps), Frac(17, 10)))
                ELSE IF NumLt(rawDV_kps, Frac(242, 10))
                THEN NumSub(NumMul(Frac(112, 1000), rawDV_kps), Frac(81, 100))
                ELSE NumSub(NumMul(Frac(101, 1000), rawDV_kps), Frac(71, 100))
        correction ==
            IF NumGt(transitGainDays, Zero)
            THEN NumAdd(base,
                    NumAdd(NumMul(Frac(15, 1000), transitGainDays),
                           NumMul(Frac(55, 100000),
                                  NumMul(transitGainDays, transitGainDays))))
            ELSE base
    IN  NumMax(Zero, correction)

\* mutant: the total is reduced but the boost/decel split is left as it was
applyHybridDVAdjustment_totalOnly(solution, fleetAcceleration_mps2, transitGainDays) ==
    IF ~isSuccess(solution) THEN solution
    ELSE
    LET rawDV_kps == NumDiv(solution.totalDV_mps, Num(1000))
        correction_kps == computeHybridDVCorrection_kps(rawDV_kps, transitGainDays)
    IN  IF ~NumGt(correction_kps, Zero) THEN solution
        ELSE [solution EXCEPT !.totalDV_mps =
                NumMax(Zero, NumSub(solution.totalDV_mps, NumMul(correction_kps, Num(1000))))]

applyHybridDVAdjustment(solution, fleetAcceleration_mps2, transitGainDays) ==
    IF ~isSuccess(solution) THEN solution
    ELSE
    LET rawDV_kps == NumDiv(solution.totalDV_mps, Num(1000))
        correction_kps == computeHybridDVCorrection_kps(rawDV_kps, transitGainDays)
        adjustedTotalDV_mps ==
            NumMax(Zero, NumSub(solution.totalDV_mps, NumMul(correction_kps, Num(1000))))
        scale == NumDiv(adjustedTotalDV_mps, solution.totalDV_mps)
        boostDV_mps == NumMul(solution.boostDV_mps, scale)
        decelDV_mps == NumMul(solution.decelDV_mps, scale)
        positive == NumGt(fleetAcceleration_mps2, Zero)
    IN  IF ~NumGt(correction_kps, Zero) THEN solution
        ELSE IF ~NumGt(solution.totalDV_mps, Zero)
        THEN [solution EXCEPT !.totalDV_mps = adjustedTotalDV_mps,
                              !.boostDV_mps = Zero, !.decelDV_mps = Zero,
                              !.boostBurnTime_s = Zero, !.decelBurnTime_s = Zero]
        ELSE [solution EXCEPT
                !.totalDV_mps = NumAdd(boostDV_mps, decelDV_mps),
                !.boostDV_mps = boostDV_mps,
                !.decelDV_mps = decelDV_mps,
                !.boostBurnTime_s =
                    IF positive THEN NumDiv(boostDV_mps, fleetAcceleration_mps2) ELSE Zero,
                !.decelBurnTime_s =
                    IF positive THEN NumDiv(decelDV_mps, fleetAcceleration_mps2) ELSE Zero]

\* input.hybridRemap = undefined
NoRemap ==
    [requested |-> FALSE, found |-> FALSE, launchTime_s |-> Zero, arrivalTime_s |-> Zero,
     prograde |-> NoLambert, retrograde |-> NoLambert,
     torch |-> [seed |-> "linear", firstError |-> One, currentError |-> PosInf,
                seedBoost |-> Zero, seedDecel |-> Zero,
                newtonBoost |-> Zero, newtonDecel |-> Zero]]

\* remapHybridInput(input) = null
NoInput == [isNull |-> TRUE]

\* mutant: the remap does not look at the transit duration of its input
remapHybridInput_unchecked(input) ==
    LET remap == input.hybridRemap
    IN  IF ~remap.requested THEN NoInput
        ELSE IF ~remap.found THEN NoInput
        ELSE IF NumLe(remap.arrivalTime_s, remap.launchTime_s) THEN NoInput
        ELSE [isNull |-> FALSE,
              input |-> [input EXCEPT !.launchTime_s = remap.launchTime_s,
                                      !.arrivalTime_s = remap.arrivalTime_s,
                                      !.prograde = remap.prograde,
                                      !.retrograde = remap.retrograde,
                                      !.torch = remap.torch]]

\* remapHybridInput.  input.hybridRemap holds what the re-solve and re-sampling
\* rounds end with: whether they found a remapped pair of endpoints (found),
\* its times, and what the kernels return for the remapped input.
remapHybridInput(input) ==
    LET remap == input.hybridRemap
        baseTransit_s == NumSub(input.arrivalTime_s, input.launchTime_s)
    IN  IF ~remap.requested THEN NoInput
        ELSE IF ~NumGt(baseTransit_s, Zero) THEN NoInput
        ELSE IF ~remap.found THEN NoInput
        ELSE IF NumLe(remap.arrivalTime_s, remap.launchTime_s) THEN NoInput
        ELSE [isNull |-> FALSE,
              input |-> [input EXCEPT !.launchTime_s = remap.launchTime_s,
                                      !.arrivalTime_s = remap.arrivalTime_s,
                                      !.prograde = remap.prograde,
                                      !.retrograde = remap.retrograde,
                                      !.torch = remap.torch]]

\* The choice between the direct and the remapped best solution
\* (solveTwoBurnLambertTransfer from `let selected = chooseBetterSolution`
\* on; input.hybridRemap is set whenever a remapped input exists)
selectHybrid(rev, directBest, mappedBest, fleetAcceleration_mps2) ==
    LET bothSucceed == isSuccess(directBest) /\ isSuccess(mappedBest)
        mappedTransitGainDays ==
            NumDiv(NumSub(mappedBest.transitDuration_s, directBest.transitDuration_s),
                   Num(86400))
        takeMapped == /\ bothSucceed
                      /\ NumGt(mappedTransitGainDays, Zero)
                      /\ NumLt(mappedBest.totalDV_mps, directBest.totalDV_mps)
    IN  applyHybridDVAdjustment(
            IF bothSucceed
            THEN (IF takeMapped THEN mappedBest ELSE directBest)
            ELSE chooseBetterSolution(rev, directBest, mappedBest, fleetAcceleration_mps2),
            fleetAcceleration_mps2,
            IF takeMapped THEN mappedTransitGainDays ELSE Zero)

\* In the Lambert-only revision solveTwoBurnLambertTransfer is the Lambert
\* evaluation alone.
solveTwoBurnLambertTransfer(rev, input) ==
    IF rev = "lambert" THEN solvePureLambertTransfer(rev, input)
    ELSE
    LET acc == input.fleetAcceleration_mps2
        directBest == bestSolution(rev, solvePureLambertTransfer(rev, input),
                                   solveTorchTransfer(input), acc)
        remapped == remapHybridInput(input)
    IN  IF remapped.isNull
        THEN (IF ~input.hybridRemap.requested THEN directBest
              ELSE applyHybridDVAdjustment(directBest, acc, Zero))
        ELSE selectHybrid(rev, directBest,
                          bestSolution(rev,
                                       solvePureLambertTransfer(rev, remapped.input),
                                       solveTorchTransfer(remapped.input), acc),
                          acc)

-----------------------------------------------------------------------------
(* Comparator harness: the arguments are drawn in CmpInit, Compare applies  *)
(* bestTransferResult to them.                                              *)

Payloads == {Num(i) : i \in 0 .. MaxPayload} \cup {PosInf}
Accelerations == {Num(i) : i \in 0 .. MaxAccel}

Results ==
    {makeResult(o, v, v2) : o \in TransferOutcome, v \in Payloads, v2 \in Payloads}

NoOutput == [outcome |-> -2, value |-> Zero, value2 |-> Zero]

\* The comparator harness is not in use
CmpOff ==
    /\ cmpPc = "off"
    /\ cmpA = NULL
    /\ cmpB = NULL
    /\ cmpAccel = Zero
    /\ cmpOut = NoOutput

-----------------------------------------------------------------------------
(* Evaluator harness: the input is drawn in EvalInit together with what the *)
(* numerical kernels (solveLambert, cartesianToOrbitalElements,             *)
(* wouldCollideWithBarycenter, the Torch iteration, the remap sampling)     *)
(* return for it; Evaluate applies solveTwoBurnLambertTransfer.             *)

Orbit(ecc, peri, collides) ==
    [isNull |-> FALSE, eccentricity |-> ecc, meanAnomalyFinite |-> TRUE,
     periapsis_m |-> peri, collides |-> collides, periodLong |-> FALSE,
     period_s |-> IF NumLt(ecc, One) THEN Num(1000) ELSE PosInf]

Lambert(burn0, burn1, orbit) ==
    [isNull |-> FALSE, burn0 |-> burn0, burn1 |-> burn1,
     totalDV |-> NumAdd(burn0, burn1), orbit |-> orbit]

Torch(seed, firstError, currentError, seedBoost, seedDecel, newtonBoost, newtonDecel) ==
    [seed |-> seed, firstError |-> firstError, currentError |-> currentError,
     seedBoost |-> seedBoost, seedDecel |-> seedDecel,
     newtonBoost |-> newtonBoost, newtonDecel |-> newtonDecel]

BodyRadius == Num(7)

ClearOrbit == Orbit(Frac(1, 2), Num(9), FALSE)
LowOrbit == Orbit(Frac(1, 2), Num(5), TRUE)
LowerOrbit == Orbit(Frac(1, 4), Num(3), TRUE)
HyperbolicOrbit == Orbit(Num(2), Num(9), FALSE)
ParabolicOrbit == Orbit(One, Num(9), FALSE)
LongOrbit == [ClearOrbit EXCEPT !.periodLong = TRUE, !.period_s = PosInf]
BrokenOrbit == [ClearOrbit EXCEPT !.meanAnomalyFinite = FALSE]

ProgradeBranches ==
    {NoLambert,
     Lambert(Num(1000), Num(1000), ClearOrbit),
     Lambert(Num(3000), Num(1000), ClearOrbit),
     Lambert(Num(10000), Num(10000), ClearOrbit),
     Lambert(Zero, Zero, ClearOrbit),
     Lambert(Num(1000), Num(1000), LowOrbit),
     Lambert(Num(2000), Num(1000), HyperbolicOrbit),
     Lambert(Num(1000), Num(1000), ParabolicOrbit),
     Lambert(Num(1000), Num(1000), LongOrbit),
     Lambert(Num(1000), Num(1000), BrokenOrbit)}

RetrogradeBranches ==
    {NoLambert,
     Lambert(Num(1000), Num(1000), ClearOrbit),
     Lambert(Num(2000), Num(2000), ClearOrbit),
     Lambert(Num(2000), Num(2000), LowerOrbit),
     Lambert(Num(2000), Num(2000), ParabolicOrbit)}

TorchRuns ==
    {Torch("primary", Num(4), Zero, Num(1000), Num(1000), Num(500), Num(500)),
     Torch("secondary", One, Num(9), Num(1000), Num(2000), Num(500), Num(500)),
     Torch("linear", One, NaN, Num(1000), Num(1000), NaN, NaN),
     Torch("linear", Num(4), Num(4), Num(1000), Num(1000), Num(40000), Num(50000)),
     Torch("primary", One, PosInf, PosInf, Num(1000), NaN, NaN)}

Day == Num(86400)
LaunchTimes == {Zero, NumMul(Num(10), Day)}
ArrivalTimes == {Zero, NumMul(Num(10), Day), NumMul(Num(12), Day)}
FleetAccelerations == {Zero, Frac(1, 100), One}

\* What the hybrid remap ends with for a transfer from launch to arrival:
\* not requested; no aligned sample; endpoints moved so that the transit
\* grows by two days; endpoints moved so that it shrinks by one day; the
\* endpoints crossed.
Remapped(launch, arrival, prograde, retrograde, torch) ==
    [requested |-> TRUE, found |-> TRUE,
     launchTime_s |-> launch, arrivalTime_s |-> arrival,
     prograde |-> prograde, retrograde |-> retrograde, torch |-> torch]

HybridRemaps(launch, arrival) ==
    {NoRemap,
     [NoRemap EXCEPT !.requested = TRUE],
     Remapped(NumSub(launch, Day), NumAdd(arrival, Day),
              Lambert(Num(1000), Num(500), ClearOrbit), NoLambert,
              Torch("linear", One, PosInf, Num(1000), Num(1000), NaN, NaN)),
     Remapped(launch, NumSub(arrival, Day),
              Lambert(Num(1000), Num(1000), LowOrbit), NoLambert,
              Torch("primary", Num(4), Zero, Num(1000), Num(1000), Num(500), Num(500))),
     Remapped(NumAdd(launch, Day), NumAdd(arrival, Day),
              Lambert(Num(1000), Num(1000), ParabolicOrbit), NoLambert,
              Torch("linear", One, PosInf, Num(1000), Num(1000), NaN, NaN)),
     Remapped(NumAdd(launch, Day), NumSub(arrival, Day),
              NoLambert, NoLambert,
              Torch("linear", One, PosInf, Num(1000), Num(1000), NaN, NaN))}

TwoBurnTransferInput(launch, arrival, acc, prograde, retrograde, torch, remap) ==
    [launchTime_s |-> launch, arrivalTime_s |-> arrival,
     fleetAcceleration_mps2 |-> acc, barycenterMeanRadius_m |-> BodyRadius,
     prograde |-> prograde, retrograde |-> retrograde,
     torch |-> torch, hybridRemap |-> remap]

NoEvalInput ==
    TwoBurnTransferInput(Zero, Zero, Zero, NoLambert, NoLambert,
                         Torch("linear", One, PosInf, Zero, Zero, Zero, Zero), NoRemap)

NoSolution == emptySolution(NoEvalInput, NoOutput)

\* The evaluator harness is not in use
EvOff ==
    /\ evPc = "off"
    /\ evInput = NoEvalInput
    /\ evOut = NoSolution

-----------------------------------------------------------------------------
(* Grid search engine (porkchop.ts) *)

STANDARD_GRAVITY_MPS2 == Frac(980665, 100000)

\* a null grid entry, a null `optimal`
NullCell == [isNull |-> TRUE]

\* an optional field left undefined
Undefined == <<"undefined">>

\* mutant: transitDays is taken from the solution's transit duration
transferSolutionToCell_nominal(solution) ==
    [isNull |-> FALSE,
     launchDay |-> NumDiv(solution.launchTime_s, Num(86400)),
     arrivalDay |-> NumDiv(solution.arrivalTime_s, Num(86400)),
     departureDVRaw |-> NumDiv(solution.boostDV_mps, Num(1000)),
     launchImpulseDV |-> Zero,
     departureDV |-> NumDiv(solution.boostDV_mps, Num(1000)),
     arrivalDV |-> NumDiv(solution.decelDV_mps, Num(1000)),
     totalDVRaw |-> NumDiv(solution.totalDV_mps, Num(1000)),
     totalDV |-> NumDiv(solution.totalDV_mps, Num(1000)),
     transitDays |-> NumDiv(solution.transitDuration_s, Num(86400)),
     outcome |-> solution.result.outcome,
     outcomeValue |-> solution.result.value,
     outcomeValue2 |-> solution.result.value2,
     boostBurnDays |-> IF IsFinite(solution.boostBurnTime_s)
                       THEN NumDiv(solution.boostBurnTime_s, Num(86400))
                       ELSE Undefined,
     decelBurnDays |-> IF IsFinite(solution.decelBurnTime_s)
                       THEN NumDiv(solution.decelBurnTime_s, Num(86400))
                       ELSE Undefined]

transferSolutionToCell(solution) ==
    LET launchDay == NumDiv(solution.launchTime_s, Num(86400))
        arrivalDay == NumDiv(solution.arrivalTime_s, Num(86400))
        departureDV == NumDiv(solution.boostDV_mps, Num(1000))
        arrivalDV == NumDiv(solution.decelDV_mps, Num(1000))
        totalDV == NumDiv(solution.totalDV_mps, Num(1000))
    IN  [isNull |-> FALSE,
         launchDay |-> launchDay,
         arrivalDay |-> arrivalDay,
         departureDVRaw |-> departureDV,
         launchImpulseDV |-> Zero,
         departureDV |-> departureDV,
         arrivalDV |-> arrivalDV,
         totalDVRaw |-> totalDV,
         totalDV |-> totalDV,
         transitDays |-> NumSub(arrivalDay, launchDay),
         outcome |-> solution.result.outcome,
         outcomeValue |-> solution.result.value,
         outcomeValue2 |-> solution.result.value2,
         boostBurnDays |-> IF IsFinite(solution.boostBurnTime_s)
                           THEN NumDiv(solution.boostBurnTime_s, Num(86400))
                           ELSE Undefined,
         decelBurnDays |-> IF IsFinite(solution.decelBurnTime_s)
                           THEN NumDiv(solution.decelBurnTime_s, Num(86400))
                           ELSE Undefined]

\* The outcomes the plot's transferOutcomeLabel has a label for
transferOutcomeLabels ==
    {Fail_InsufficientDV, Fail_ArrivalBeforeLaunch, Fail_LaunchInPast, Fail_Parabolic,
     Fail_Hyperbolic, Fail_InsufficientAcceleration, Fail_OrbitPeriod,
     Fail_BurnLongerThanTransfer, Fail_BurnNaN, Fail_WouldCollideWithBody,
     Fail_CodePathNotImplemented}

\* failureCounts is a record from outcome to count; a missing key reads as 0
CountOf(failureCounts, outcome) ==
    IF outcome \in DOMAIN failureCounts THEN failureCounts[outcome] ELSE 0

emptyResult ==
    [grid |-> <<>>,
     minDV |-> Zero,
     maxDV |-> Zero,
     optimal |-> NullCell,
     launchStartDay |-> Zero,
     launchStepDays |-> Zero,
     minTransitDays |-> Zero,
     transitStepDays |-> Zero,
     failureCounts |-> <<>>,
     bestFailureOutcome |-> NULL.outcome,
     bestFailureValue |-> Zero,
     bestFailureValue2 |-> Zero]

\* What the ephemeris and the kernels give at cell (i, j): the sweep draws
\* them from a list of cases, cell (i, j) uses case (a*i + b*j + c) mod Len.
KernelsAt(scenario, i, j) ==
    scenario.cases[((scenario.a * i + scenario.b * j + scenario.c) % Len(scenario.cases)) + 1]

\* mutant: the launch and arrival times are exchanged
cellInput_backwards(ctx, i, j) ==
    LET launchTime_s == NumAdd(ctx.launchStart_s, NumMul(Num(i), ctx.launchStep_s))
        transitDuration_s == NumAdd(ctx.minTransit_s, NumMul(Num(j), ctx.transitStep_s))
        kernels == KernelsAt(ctx.scenario, i, j)
    IN  [launchTime_s |-> NumAdd(launchTime_s, transitDuration_s),
         arrivalTime_s |-> launchTime_s,
         fleetAcceleration_mps2 |-> ctx.fleetAcceleration_mps2,
         barycenterMeanRadius_m |-> ctx.barycenterMeanRadius_m,
         prograde |-> kernels.prograde,
         retrograde |-> kernels.retrograde,
         torch |-> kernels.torch,
         hybridRemap |-> NoRemap]

\* The evaluator's input at cell (i, j) (hybridRemap is not passed)
cellInput(ctx, i, j) ==
    LET launchTime_s == NumAdd(ctx.launchStart_s, NumMul(Num(i), ctx.launchStep_s))
        transitDuration_s == NumAdd(ctx.minTransit_s, NumMul(Num(j), ctx.transitStep_s))
        kernels == KernelsAt(ctx.scenario, i, j)
    IN  [launchTime_s |-> launchTime_s,
         arrivalTime_s |-> NumAdd(launchTime_s, transitDuration_s),
         fleetAcceleration_mps2 |-> ctx.fleetAcceleration_mps2,
         barycenterMeanRadius_m |-> ctx.barycenterMeanRadius_m,
         prograde |-> kernels.prograde,
         retrograde |-> kernels.retrograde,
         torch |-> kernels.torch,
         hybridRemap |-> NoRemap]

\* mutant: the delta-V cap is checked before the launch time
downgrade_capFirst(ctx, transitDuration_s, solution) ==
    IF solution.result.outcome # Success THEN solution.result
    ELSE IF NumGt(NumDiv(solution.totalDV_mps, Num(1000)), ctx.dvCap_kms)
    THEN makeResult(Fail_InsufficientDV, solution.totalDV_mps, Zero)
    ELSE IF NumLt(solution.launchTime_s, ctx.startTime_s)
    THEN makeResult(Fail_LaunchInPast,
                    NumSub(ctx.startTime_s, solution.launchTime_s), transitDuration_s)
    ELSE IF ~solution.transferOrbit.isNull
            /\ NumGe(solution.transferOrbit.eccentricity, One)
    THEN makeResult(Fail_Hyperbolic, solution.transferOrbit.eccentricity, Zero)
    ELSE solution.result

\* `let evaluation = solution.result` and the downgrades of a Success
downgrade(ctx, transitDuration_s, solution) ==
    IF solution.result.outcome # Success THEN solution.result
    ELSE IF NumLt(solution.launchTime_s, ctx.startTime_s)
    THEN makeResult(Fail_LaunchInPast,
                    NumSub(ctx.startTime_s, solution.launchTime_s), transitDuration_s)
    ELSE IF NumGt(NumDiv(solution.totalDV_mps, Num(1000)), ctx.dvCap_kms)
    THEN makeResult(Fail_InsufficientDV, solution.totalDV_mps, Zero)
    ELSE IF ~solution.transferOrbit.isNull
            /\ NumGe(solution.transferOrbit.eccentricity, One)
    THEN makeResult(Fail_Hyperbolic, solution.transferOrbit.eccentricity, Zero)
    ELSE solution.result

\* mutant: a failed cell is counted but never becomes the best failure
recordFailure_countOnly(rev, ctx, acc, evaluation) ==
    [acc EXCEPT
        !.failureCounts =
            (evaluation.outcome :> (CountOf(@, evaluation.outcome) + 1)) @@ @,
        !.row = Append(@, NullCell)]

\* The failure branch of the loop body, up to `continue`
recordFailure(rev, ctx, acc, evaluation) ==
    [acc EXCEPT
        !.failureCounts =
            (evaluation.outcome :> (CountOf(@, evaluation.outcome) + 1)) @@ @,
        !.bestFailure =
            bestTransferResult(rev, @, evaluation, ctx.fleetAcceleration_mps2),
        !.row = Append(@, NullCell)]

\* mutant: the optimum is replaced by every cell that is not worse
recordCell_notWorse(acc, cell) ==
    [acc EXCEPT
        !.row = Append(@, cell),
        !.minDV = IF NumLe(cell.totalDV, @) THEN cell.totalDV ELSE @,
        !.optimal = cell,
        !.maxDV = IF NumGt(cell.totalDV, @) THEN cell.totalDV ELSE @]

\* The success branch of the loop body
recordCell(acc, cell) ==
    [acc EXCEPT
        !.row = Append(@, cell),
        !.minDV = IF NumLt(cell.totalDV, @) THEN cell.totalDV ELSE @,
        !.optimal = IF NumLt(cell.totalDV, acc.minDV) THEN cell ELSE @,
        !.maxDV = IF NumGt(cell.totalDV, @) THEN cell.totalDV ELSE @]

afterEvaluation(rev, ctx, acc, solution, evaluation) ==
    IF evaluation.outcome # Success
    THEN recordFailure(rev, ctx, acc, evaluation)
    ELSE recordCell(acc, transferSolutionToCell(solution))

afterSolve(rev, ctx, acc, transitDuration_s, solution) ==
    afterEvaluation(rev, ctx, acc, solution, downgrade(ctx, transitDuration_s, solution))

\* The body of the inner loop at (acc.i, acc.j); acc.evaluations counts the
\* calls of the evaluator.
loopBody(rev, ctx, acc) ==
    afterSolve(rev, ctx, [acc EXCEPT !.evaluations = @ + 1],
               NumAdd(ctx.minTransit_s, NumMul(Num(acc.j), ctx.transitStep_s)),
               solveTwoBurnLambertTransfer(rev, cellInput(ctx, acc.i, acc.j)))

RECURSIVE innerLoop(_, _, _)
\* for (let j = 0; j < N; j++)
innerLoop(rev, ctx, acc) ==
    IF NumLt(Num(acc.j), ctx.N)
    THEN innerLoop(rev, ctx, [loopBody(rev, ctx, acc) EXCEPT !.j = @ + 1])
    ELSE acc

\* grid.push(row); i++
pushRow(acc) == [acc EXCEPT !.grid = Append(@, acc.row), !.i = @ + 1]

RECURSIVE outerLoop(_, _, _)
\* for (let i = 0; i < N; i++) { const row = []; ...; grid.push(row) }
outerLoop(rev, ctx, acc) ==
    IF NumLt(Num(acc.i), ctx.N)
    THEN outerLoop(rev, ctx,
                   pushRow(innerLoop(rev, ctx, [acc EXCEPT !.row = <<>>, !.j = 0])))
    ELSE acc

RECURSIVE SumCounts(_, _)
\* The sum of failureCounts over the outcomes 0 .. outcome
SumCounts(failureCounts, outcome) ==
    IF outcome < 0 THEN 0
    ELSE CountOf(failureCounts, outcome) + SumCounts(failureCounts, outcome - 1)

\* const N = Math.max(20, Math.min(150, Math.floor(inputs.gridResolution)))
gridSize(gridResolution) ==
    NumMax(Num(20), NumMin(Num(150), NumFloor(gridResolution)))

\* The locals of computePorkchopGrid that the loops read.  The start time and
\* the launch and transit spans come from Date.parse and the ephemeris
\* (hohmannDuration_s, synodicPeriod_s); the inputs carry their values.
gridContext(inputs) ==
    LET N == gridSize(inputs.gridResolution)
        launchAcceleration_mg ==
            IF IsFinite(inputs.launchAcceleration_mg)
            THEN NumMax(Zero, inputs.launchAcceleration_mg)
            ELSE Zero
    IN  [N |-> N,
         fleetAcceleration_mps2 |->
            NumDiv(NumMul(launchAcceleration_mg, STANDARD_GRAVITY_MPS2), Num(1000)),
         dvCap_kms |->
            IF IsFinite(inputs.maxDeltaV_kms) /\ NumGt(inputs.maxDeltaV_kms, Zero)
            THEN inputs.maxDeltaV_kms
            ELSE PosInf,
         startTime_s |-> NumDiv(inputs.startDateValue, Num(1000)),
         launchStart_s |-> NumDiv(inputs.startDateValue, Num(1000)),
         launchStep_s |->
            IF NumGt(N, One)
            THEN NumDiv(inputs.launchSpan_s, NumSub(N, One))
            ELSE Zero,
         minTransit_s |-> inputs.minTransit_s,
         transitStep_s |->
            IF NumGt(N, One)
            THEN NumDiv(NumSub(inputs.maxTransit_s, inputs.minTransit_s), NumSub(N, One))
            ELSE Zero,
         barycenterMeanRadius_m |-> inputs.barycenterMeanRadius_m,
         scenario |-> inputs.scenario]

\* The locals before the loops
StartOfSweep ==
    [grid |-> <<>>, row |-> <<>>, minDV |-> PosInf, maxDV |-> Zero,
     optimal |-> NullCell, failureCounts |-> <<>>, bestFailure |-> NULL,
     i |-> 0, j |-> 0, evaluations |-> 0]

\* `if (!Number.isFinite(minDV)) minDV = 0` and the returned object
sweepResult(ctx, acc) ==
    [grid |-> acc.grid,
     minDV |-> IF ~IsFinite(acc.minDV) THEN Zero ELSE acc.minDV,
     maxDV |-> acc.maxDV,
     optimal |-> acc.optimal,
     launchStartDay |-> NumDiv(ctx.launchStart_s, Num(86400)),
     launchStepDays |-> NumDiv(ctx.launchStep_s, Num(86400)),
     minTransitDays |-> NumDiv(ctx.minTransit_s, Num(86400)),
     transitStepDays |-> NumDiv(ctx.transitStep_s, Num(86400)),
     failureCounts |-> acc.failureCounts,
     bestFailureOutcome |-> acc.bestFailure.outcome,
     bestFailureValue |-> acc.bestFailure.value,
     bestFailureValue2 |-> acc.bestFailure.value2]

\* What a call of computePorkchopGrid leaves: the returned PorkchopResult,
\* whether the loops were reached, the local N and the number of calls of
\* the evaluator.
GridRun(result, sweep, N, evaluations) ==
    [result |-> result, sweep |-> sweep, N |-> N, evaluations |-> evaluations]

sweepRun(ctx, acc) == GridRun(sweepResult(ctx, acc), TRUE, ctx.N, acc.evaluations)

sweep(rev, ctx) == sweepRun(ctx, outerLoop(rev, ctx, StartOfSweep))

\* mutant: a barycenter mu of 0 is let through
computePorkchopGrid_zeroMu(rev, inputs) ==
    IF inputs.early \in {"orbit", "body"}
    THEN GridRun(emptyResult, FALSE, NoNumber, 0)
    ELSE IF ~IsFinite(inputs.startDateValue)
    THEN GridRun(emptyResult, FALSE, NoNumber, 0)
    ELSE IF ~IsFinite(inputs.barycenterMu_m3s2)
            \/ NumLt(inputs.barycenterMu_m3s2, Zero)
    THEN GridRun(emptyResult, FALSE, gridSize(inputs.gridResolution), 0)
    ELSE sweep(rev, gridContext(inputs))

\* inputs.early names the failed lookup, "" for none: an orbit is not found
\* or a heliocentric body is not found.  Then gameDate does not parse
\* (startDateValue is NaN), all before N is computed, or the barycenter's mu
\* is not a positive finite number (after it).
computePorkchopGrid(rev, inputs) ==
    IF inputs.early \in {"orbit", "body"}
    THEN GridRun(emptyResult, FALSE, NoNumber, 0)
    ELSE IF ~IsFinite(inputs.startDateValue)
    THEN GridRun(emptyResult, FALSE, NoNumber, 0)
    ELSE IF ~IsFinite(inputs.barycenterMu_m3s2)
            \/ NumLe(inputs.barycenterMu_m3s2, Zero)
    THEN GridRun(emptyResult, FALSE, gridSize(inputs.gridResolution), 0)
    ELSE sweep(rev, gridContext(inputs))

-----------------------------------------------------------------------------
(* Grid engine harness: the inputs are drawn in GridInit, ComputeGrid       *)
(* applies computePorkchopGrid.                                             *)

Kernels(prograde, retrograde, torch) ==
    [prograde |-> prograde, retrograde |-> retrograde, torch |-> torch]

TorchFails == Torch("linear", One, PosInf, Num(1000), Num(1000), NaN, NaN)

\* The cases a sweep meets: Lambert successes of different cost, a tie between
\* the branches, a collision, no Lambert solution with a Torch solution, a
\* hyperbolic and a parabolic transfer orbit.
SweepCases ==
    <<Kernels(Lambert(Num(1000), Num(1000), ClearOrbit), NoLambert,
              Torch("primary", Num(4), Zero, Num(1000), Num(1000), Num(500), Num(500))),
      Kernels(Lambert(Num(3000), Num(1000), ClearOrbit),
              Lambert(Num(2000), Num(2000), ClearOrbit), TorchFails),
      Kernels(Lambert(Num(1000), Num(1000), LowOrbit), NoLambert, TorchFails),
      Kernels(NoLambert, NoLambert,
              Torch("secondary", One, PosInf, Num(1000), Num(2000), Num(500), Num(500))),
      Kernels(Lambert(Num(2000), Num(1000), HyperbolicOrbit), NoLambert, TorchFails),
      Kernels(Lambert(Num(500), Num(500), ClearOrbit),
              Lambert(Num(2000), Num(2000), LowerOrbit), TorchFails),
      Kernels(Lambert(Num(1000), Num(1000), ParabolicOrbit), NoLambert, TorchFails)>>

Scenario(a, b, c) == [cases |-> SweepCases, a |-> a, b |-> b, c |-> c]

\* The Sun's gravitational parameter, the unit barycenterMu_m3s2 is given in
GM_SUN == One

TransferInputs(early, gridResolution, launchAcceleration_mg, maxDeltaV_kms, scenario) ==
    [early |-> early,
     gridResolution |-> gridResolution,
     launchAcceleration_mg |-> launchAcceleration_mg,
     maxDeltaV_kms |-> maxDeltaV_kms,
     startDateValue |-> NumMul(Day, Num(1000)),
     barycenterMu_m3s2 |-> GM_SUN,
     launchSpan_s |-> Num(56620),
     minTransit_s |-> Num(3600),
     maxTransit_s |-> Num(60220),
     barycenterMeanRadius_m |-> BodyRadius,
     scenario |-> scenario]

\* launchAcceleration_mg that gives a fleet acceleration of 1 m/s^2
OneMps2_mg == Frac(20000000, 196133)

\* G_SI * mass_kg of a local barycenter whose mass is not a positive number
BadMus == {NaN, PosInf, NegInf, Zero, Num(-1)}

\* Date.parse of a gameDate that does not parse is NaN
WithDate(inputs, startDateValue) == [inputs EXCEPT !.startDateValue = startDateValue]

WithMu(inputs, mu) == [inputs EXCEPT !.barycenterMu_m3s2 = mu]

\* hohmannDuration_s of radii that are not numbers is NaN, and with it
\* Math.max(transitMinFloor_s, NaN) and maxTransit_s
WithNoHohmann(inputs) == [inputs EXCEPT !.minTransit_s = NaN, !.maxTransit_s = NaN]

\* With times that are not numbers no kernel has a solution
NoSolutionScenario ==
    [cases |-> <<Kernels(NoLambert, NoLambert, TorchFails)>>, a |-> 0, b |-> 0, c |-> 0]

GridResolutions ==
    {NaN, NegInf, Num(-5), Zero, Num(19), Num(20), Frac(41, 2), Num(21),
     Num(150), Num(151), PosInf}

LaunchAccelerations_mg ==
    {NaN, Num(-3), Zero, Frac(200000, 196133), OneMps2_mg}

MaxDeltaVs_kms == {NaN, Num(3)}

\* Every resolution meets the computation of N; the sweeps run at the
\* resolutions that give the smallest grids.
SweepResolutions == {res \in GridResolutions : ~NumGt(res, Num(21))}

GridInputs ==
    {TransferInputs("", res, OneMps2_mg, NaN, Scenario(1, 1, 0)) :
        res \in SweepResolutions}
    \cup
    {WithMu(TransferInputs("", res, OneMps2_mg, NaN, Scenario(1, 1, 0)), NaN) :
        res \in GridResolutions}
    \cup
    {WithMu(TransferInputs("", Num(20), OneMps2_mg, NaN, Scenario(1, 1, 0)), mu) :
        mu \in BadMus}
    \cup
    {WithNoHohmann(TransferInputs("", Num(20), OneMps2_mg, NaN, NoSolutionScenario))}
    \cup
    {WithDate(TransferInputs("", Num(20), OneMps2_mg, NaN, Scenario(1, 1, 0)), NaN)}
    \cup
    {TransferInputs("", Num(20), mg, cap, Scenario(a, b, c)) :
        mg \in LaunchAccelerations_mg, cap \in MaxDeltaVs_kms,
        a \in {0, 1}, b \in {1, 2}, c \in {0, 3}}
    \cup
    {TransferInputs("", res, Zero, NaN, Scenario(1, 1, 0)) :
        res \in SweepResolutions}
    \cup
    {TransferInputs(early, Num(20), OneMps2_mg, NaN, Scenario(1, 1, 0)) :
        early \in {"orbit", "body"}}

NoGridInput == TransferInputs("off", Zero, Zero, Zero, Scenario(0, 0, 0))
NoGridRun == GridRun(emptyResult, FALSE, NoNumber, 0)

\* The grid engine harness is not in use
GridOff ==
    /\ gridPc = "off"
    /\ gridInput = NoGridInput
    /\ gridRun = NoGridRun

-----------------------------------------------------------------------------
(* usePorkchop and the sweep worker.  A worker is "started" once compute()  *)
(* has posted the request to it, "posted" once its onmessage handler has    *)
(* run computePorkchopGrid and posted the result, "delivered" once the      *)
(* hook's worker.onmessage has run, "failed" once it has raised an error,   *)
(* and "terminated" after Worker.terminate(), which discards the worker's   *)
(* pending tasks and the messages it posted that are not yet delivered.     *)

\* The `inputs` the hook is rendered with
HookInputs ==
    <<TransferInputs("", Num(20), OneMps2_mg, NaN, Scenario(1, 1, 0)),
      TransferInputs("", Num(20), OneMps2_mg, Num(3), Scenario(0, 1, 3))>>

\* What the worker posts for each of them
WorkerOutput ==
    [rev \in Revisions |->
        [k \in 1 .. Len(HookInputs) |-> computePorkchopGrid(rev, HookInputs[k]).result]]

NoResult == [from |-> 0, data |-> emptyResult]

Worker(inputs) ==
    [inputs |-> inputs, status |-> "started", discarded |-> FALSE, errorQueued |-> FALSE]

\* workerRef.current?.terminate()
terminate(ws, ref) ==
    IF ref = 0 \/ ws[ref].status \in {"delivered", "failed", "terminated"}
    THEN ws
    ELSE [ws EXCEPT ![ref].status = "terminated",
                    ![ref].discarded = (ws[ref].status = "posted")]

\* mutant: compute() leaves the previous worker running
workersAfterCompute_noTerminate(ws, ref, inputs) ==
    Append(ws, Worker(inputs))

\* The workers after compute(): the previous one terminated, a new one
\* created and sent the request
workersAfterCompute(ws, ref, inputs) ==
    Append(terminate(ws, ref), Worker(inputs))

\* The hook is not in use
HookOff ==
    /\ hookPc = "off"
    /\ hookInputs = 0
    /\ hookResult = NoResult
    /\ isComputing = FALSE
    /\ workerRef = 0
    /\ workers = <<>>

-----------------------------------------------------------------------------
(* The iterations of the solvers: solveKepler and solveKeplerHyperbolic     *)
(* (kepler.ts), solveLambert (lambert.ts) and solveTorchTransfer.  The      *)
(* arithmetic of a loop body is not computed; what is kept of it is which   *)
(* of its tests fire and whether the iterate stays finite, so that a step   *)
(* can take every path the body has.                                        *)

\* for (let i = 0; i < 1000; i++) in solveKepler
KeplerCeiling == 1000
\* for (let i = 0; i < 1000; i++) in solveKeplerHyperbolic
KeplerHyperbolicCeiling == 1000
\* for (let i = 0; i < 15; i++) in solveLambert
LambertCeiling == 15
\* const maxIterations = 20 in solveTorchTransfer
maxIterations == 20

SolverKinds == {"kepler", "keplerHyperbolic", "lambert", "torch"}

ceiling(kind) ==
    CASE kind = "kepler" -> KeplerCeiling
      [] kind = "keplerHyperbolic" -> KeplerHyperbolicCeiling
      [] kind = "lambert" -> LambertCeiling
      [] kind = "torch" -> maxIterations

\* mutant: the loop admits one more pass
loopGuard_inclusive(kind, i) == i <= ceiling(kind)

\* the loop condition `i < ceiling`
loopGuard(kind, i) == i < ceiling(kind)

\* What one pass of a loop body can do, given whether the iterate is finite.
\* solveKepler, solveKeplerHyperbolic: `E -= dE; if (Math.abs(dE) < 1e-6)
\* break`; a NaN dE fails the test and leaves a NaN iterate, which gives a
\* NaN dE again.
\* solveLambert: x is finite at the top of every pass (x0 is checked before
\* the loop, nextX before it is stored); the pass breaks on a non-finite Tx,
\* a non-finite derivative, |delta| < 1e-11, |denominator| <= 1e-30 or a
\* non-finite nextX.
\* solveTorchTransfer: the pass breaks on currentError < tolerance, on
\* previousError === currentError, on a NaN or infinite currentError (which
\* a non-finite (u, v, w, z) gives) and on solveLinear4 returning null;
\* otherwise it stores the next (u, v, w, z), finite or not.
BodyOutcomes(kind, iterate) ==
    CASE kind \in {"kepler", "keplerHyperbolic"} ->
            IF iterate = "finite"
            THEN {"converged", "step", "stepNonFinite"}
            ELSE {"stepNonFinite"}
      [] kind = "lambert" ->
            {"TxNonFinite", "derivativeNonFinite", "converged",
             "flatDenominator", "nextNonFinite", "step"}
      [] kind = "torch" ->
            IF iterate = "finite"
            THEN {"converged", "stalled", "errorNonFinite", "singular",
                  "step", "stepNonFinite"}
            ELSE {"errorNonFinite"}

\* the outcomes of a pass that do not leave the loop
Continues(outcome) == outcome \in {"step", "stepNonFinite"}

\* the iterate after a pass.  solveLambert resets x to x0 when it breaks on a
\* non-finite value.
iterateAfter(kind, iterate, outcome) ==
    IF outcome = "stepNonFinite" THEN "nonfinite"
    ELSE IF kind = "lambert" THEN "finite"
    ELSE iterate

\* The solver loops are not in use
SlvOff ==
    /\ slvPc = "off"
    /\ slvKind = "off"
    /\ slvIter = 0
    /\ slvSteps = 0
    /\ slvIterate = "off"

-----------------------------------------------------------------------------
(* Repeated calls of computePorkchopGrid.  The function's arguments are the *)
(* inputs and the caller's body and orbit catalogs; porkchop.ts and the     *)
(* modules it imports declare no module-level `let` or `var`, no cache and  *)
(* no call of Date.now or Math.random, and the catalogs are only searched   *)
(* (Array.prototype.find), never written.  `history` stands for everything  *)
(* earlier calls have done; the function has no way to read it.             *)

\* The catalogs: orbits (name, barycenter) and the names of the bodies
Catalogs ==
    <<[orbits |-> {[name |-> "LEO", barycenter |-> "Earth"],
                   [name |-> "LMO", barycenter |-> "Mars"]},
       bodies |-> {"Earth", "Mars"}],
      [orbits |-> {[name |-> "LEO", barycenter |-> "Earth"],
                   [name |-> "LMO", barycenter |-> "Mars"]},
       bodies |-> {"Earth"}]>>

\* The requests: origin and destination orbit with the rest of the inputs
DetRequests ==
    <<[originOrbit |-> "LEO", destinationOrbit |-> "LMO", inputs |-> HookInputs[1]],
      [originOrbit |-> "LEO", destinationOrbit |-> "LEO", inputs |-> HookInputs[2]]>>

\* orbits.find((o) => o.name === name): the set of matches
findOrbit(orbits, name) == {o \in orbits : o.name = name}

\* findHeliocentricBody for an orbit around a planet
findHeliocentricBody(orbit, bodies) == {b \in bodies : b = orbit.barycenter}

\* The first lines of computePorkchopGrid: the early return the lookups lead
\* to, "" for none
lookups(request, catalog) ==
    LET originOrbit == findOrbit(catalog.orbits, request.originOrbit)
        destOrbit == findOrbit(catalog.orbits, request.destinationOrbit)
    IN  IF originOrbit = {} \/ destOrbit = {} THEN "orbit"
        ELSE IF \E o \in originOrbit \cup destOrbit :
                    findHeliocentricBody(o, catalog.bodies) = {}
        THEN "body"
        ELSE request.inputs.early

computePorkchopGridIn(rev, request, catalog) ==
    computePorkchopGrid(rev, [request.inputs EXCEPT !.early = lookups(request, catalog)]).result

\* The PorkchopResult of every request under every catalog
DetOutput ==
    [rev \in Revisions |->
        [k \in 1 .. Len(DetRequests) |->
            [c \in 1 .. Len(Catalogs) |->
                computePorkchopGridIn(rev, DetRequests[k], Catalogs[c])]]]

\* mutant: every second call finds state left by the call before it
invoke_alternating(rev, k, c, history) ==
    IF Len(history) % 2 = 1 THEN emptyResult ELSE DetOutput[rev][k][c]

\* A call of computePorkchopGrid(inputs, bodies, orbits) after `history`
invoke(rev, k, c, history) == DetOutput[rev][k][c]

\* The repeated calls are not in use
DetOff ==
    /\ detCatalog = 0
    /\ detLog = <<>>

-----------------------------------------------------------------------------
(* solveKepler (kepler.ts), elliptic case.  Angles are kept in units of pi: *)
(* the number <<n, d>> stands for the angle (n/d)*pi, so that 2*pi is the   *)
(* number 2.  The sine and cosine are evaluated where they are known        *)
(* exactly, at the whole multiples of pi; with e = 0 the products e*sin(E)  *)
(* and eDenom*cos(E) are 0 for every finite E.  The inputs of the harness   *)
(* are those for which the iteration stays on such points.                  *)

\* 1e-6 rad in units of pi
Tolerance == Frac(1, 3141593)

\* Math.trunc
NumTrunc(x) == IF NumLt(x, Zero) THEN NumNeg(NumFloor(NumNeg(x))) ELSE NumFloor(x)

\* the remainder operator x % y (the sign of the dividend is kept)
NumRem(x, y) ==
    IF ~IsFinite(x) \/ IsNaN(y) \/ y = Zero THEN NaN
    ELSE IF IsInf(y) THEN x
    ELSE NumSub(x, NumMul(NumTrunc(NumDiv(x, y)), y))

IsInteger(x) == IsFinite(x) /\ x[2] = 1

\* e * Math.sin(E) / pi
eSin(e, E) ==
    IF ~IsFinite(E) \/ ~IsFinite(e) THEN NaN
    ELSE IF e = Zero THEN Zero
    ELSE CASE IsInteger(E) -> Zero

\* e * Math.cos(E)
eCos(e, E) ==
    IF ~IsFinite(E) \/ ~IsFinite(e) THEN NaN
    ELSE IF e = Zero THEN Zero
    ELSE CASE IsInteger(E) -> (IF E[1] % 2 = 0 THEN e ELSE NumNeg(e))

\* mutant: the mean anomaly is not brought into [0, 2*pi)
normalizeAnomaly_identity(M) == M

\* let Mn = M % (2 * Math.PI); if (Mn < 0) Mn += 2 * Math.PI
normalizeAnomaly(M) ==
    LET Mn == NumRem(M, Num(2))
    IN  IF NumLt(Mn, Zero) THEN NumAdd(Mn, Num(2)) ELSE Mn

\* const dE = (E - e * Math.sin(E) - Mn) / (1 - eDenom * Math.cos(E))
newtonStep(E, Mn, e, eDenom) ==
    NumDiv(NumSub(NumSub(E, eSin(e, E)), Mn), NumSub(One, eCos(eDenom, E)))

\* what solveKeplerHyperbolic returns is not computed
HyperbolicAnomaly == <<"hyperbolic">>

\* const eDenom = Math.min(e, 0.9)
eDenomOf(e) == NumMin(e, Frac(9, 10))

\* The inputs: with e = 0 every mean anomaly that is a multiple of pi/4, none,
\* or infinite; with e > 0 the whole multiples of pi.
KeplerInputs ==
    {<<Frac(k, 4), Zero>> : k \in (0 - MaxQuarterTurns) .. MaxQuarterTurns}
    \cup {<<M, Zero>> : M \in {NaN, PosInf, NegInf}}
    \cup {<<Num(k), e>> : k \in (0 - (MaxQuarterTurns \div 4)) .. (MaxQuarterTurns \div 4),
                          e \in {Frac(1, 2), Frac(9, 10), Frac(49, 50), Frac(989, 1000)}}

\* The Kepler harness is not in use
KepOff ==
    /\ kepPc = "off"
    /\ kepM = Zero
    /\ kepEcc = Zero
    /\ kepIter = 0
    /\ kepOut = Zero

-----------------------------------------------------------------------------
(* The rounds of remapHybridInput                                           *)
(*                                                                          *)
(* The input has a hybridRemap and a transit of ten days.  What solveLambert *)
(* and the alignment scores give in a round is drawn in the round's action: *)
(* no Lambert solution, no sample with a finite score, mapped endpoints out *)
(* of order, endpoints that moved, endpoints that moved by less than 60 s.  *)

\* value ?? fallback
orDefault(value, fallback) == IF value = Undefined THEN fallback ELSE value

\* Math.round
NumRound(x) == NumFloor(NumAdd(x, Frac(1, 2)))

clamp(value, min, max) == NumMax(min, NumMin(max, value))

RemapBaseTransit_s == NumMul(Num(10), Num(86400))

window_sOf(options) ==
    LET windowDefault_s == clamp(NumMul(RemapBaseTransit_s, Frac(12, 100)),
                                 NumMul(Num(7), Num(86400)),
                                 NumMul(Num(30), Num(86400)))
    IN  NumMax(Zero, orDefault(options.remapWindow_s, windowDefault_s))

samplesOf(options) ==
    clamp(NumRound(orDefault(options.remapSamples, Num(48))), Num(8), Num(160))

iterationsOf(options) ==
    clamp(NumRound(orDefault(options.remapIterations, Num(2))), One, Num(4))

\* Whether sampleBestAlignedState takes the anchor state without sampling
anchorOnly(window_s, samples) == ~NumGt(window_s, Zero) \/ NumLt(samples, Num(2))

RemapOptions ==
    [remapWindow_s : {Undefined, Zero, Num(-3600), Num(3600)},
     remapSamples : {Undefined, NaN, Zero, Num(7), Frac(15, 2), Num(8), Num(160),
                     Num(161), PosInf},
     remapIterations : {Undefined, NaN, NegInf, Zero, One, Frac(5, 2), Num(3),
                        Num(4), Num(7), PosInf}]

\* What the comparison of a round can end with, given the stateAtTime
\* calls made for the two endpoints: without a call no state is found; the
\* anchor state alone is the state of the round before, so nothing moves
RoundFates(window_s, samples, calls) ==
    IF anchorOnly(window_s, samples) THEN {"settled"}
    ELSE IF \E k \in DOMAIN calls : calls[k] = 0 THEN {"noSample"}
    ELSE {"noSample", "crossed", "moved", "settled"}

\* remapHybridInput is not in use
RmOff ==
    /\ rmPc = "off"
    /\ rmOptions = [remapWindow_s |-> Undefined, remapSamples |-> Undefined,
                    remapIterations |-> Undefined]
    /\ rmIter = 0
    /\ rmRounds = 0
    /\ rmI = 0
    /\ rmCalls = 0
    /\ rmSampled = <<>>
    /\ rmSettled = FALSE
    /\ rmOut = "none"

-----------------------------------------------------------------------------
(* Specifications *)

\* The Lambert-only revision reads neither the Torch fields nor hybridRemap.
EvalInit ==
    /\ revision \in Revisions
    /\ evPc = "ready"
    /\ \E launch \in LaunchTimes, arrival \in ArrivalTimes,
          acc \in FleetAccelerations,
          prograde \in ProgradeBranches, retrograde \in RetrogradeBranches :
            IF revision = "torch"
            THEN \E torch \in TorchRuns, remap \in HybridRemaps(launch, arrival) :
                    evInput = TwoBurnTransferInput(launch, arrival, acc,
                                    prograde, retrograde, torch, remap)
            ELSE evInput = TwoBurnTransferInput(launch, arrival, acc,
                                    prograde, retrograde,
                                    NoEvalInput.torch, NoRemap)
    /\ evOut = NoSolution
    /\ CmpOff
    /\ GridOff
    /\ HookOff
    /\ SlvOff
    /\ DetOff
    /\ KepOff
    /\ RmOff

Evaluate ==
    /\ evPc = "ready"
    /\ evOut' = solveTwoBurnLambertTransfer(revision, evInput)
    /\ evPc' = "done"
    /\ UNCHANGED <<revision, evInput, cmpVars, gridVars, hookVars, slvVars, detVars, kepVars, rmVars>>

GridInit ==
    /\ revision \in Revisions
    /\ gridPc = "ready"
    /\ gridInput \in GridInputs
    /\ gridRun = NoGridRun
    /\ CmpOff
    /\ EvOff
    /\ HookOff
    /\ SlvOff
    /\ DetOff
    /\ KepOff
    /\ RmOff

ComputeGrid ==
    /\ gridPc = "ready"
    /\ gridRun' = computePorkchopGrid(revision, gridInput)
    /\ gridPc' = "done"
    /\ UNCHANGED <<revision, gridInput, cmpVars, evVars, hookVars, slvVars, detVars, kepVars, rmVars>>

CmpInit ==
    /\ revision \in Revisions
    /\ cmpPc = "ready"
    /\ cmpA \in Results \cup {NULL}
    /\ cmpB \in Results \cup {NULL}
    /\ cmpAccel \in Accelerations
    /\ cmpOut = NoOutput
    /\ EvOff
    /\ GridOff
    /\ HookOff
    /\ SlvOff
    /\ DetOff
    /\ KepOff
    /\ RmOff

Compare ==
    /\ cmpPc = "ready"
    /\ cmpOut' = bestTransferResult(revision, cmpA, cmpB, cmpAccel)
    /\ cmpPc' = "done"
    /\ UNCHANGED <<revision, cmpA, cmpB, cmpAccel, evVars, gridVars, hookVars, slvVars, detVars, kepVars, rmVars>>

vars == <<revision, cmpVars, evVars, gridVars, hookVars, slvVars, detVars, kepVars, rmVars>>

CmpNext == Compare

SpecComparator == CmpInit /\ [][CmpNext]_vars

EvalNext == Evaluate

SpecEvaluator == EvalInit /\ [][EvalNext]_vars

GridNext == ComputeGrid

SpecGrid == GridInit /\ [][GridNext]_vars

HookInit ==
    /\ revision \in Revisions
    /\ hookPc = "mounted"
    /\ hookInputs \in 0 .. Len(HookInputs)
    /\ hookResult = NoResult
    /\ isComputing = FALSE
    /\ workerRef = 0
    /\ workers = <<>>
    /\ CmpOff
    /\ EvOff
    /\ GridOff
    /\ SlvOff
    /\ DetOff
    /\ KepOff
    /\ RmOff

\* The component is rendered with other inputs (or with none)
Render ==
    /\ hookPc = "mounted"
    /\ \E inputs \in 0 .. Len(HookInputs) :
        /\ inputs # hookInputs
        /\ hookInputs' = inputs
    /\ UNCHANGED <<revision, hookPc, hookResult, isComputing, workerRef, workers,
                   cmpVars, evVars, gridVars, slvVars, detVars, kepVars, rmVars>>

\* compute() with inputs, bodies or orbits missing: `return`
ComputeWithoutInputs ==
    /\ hookPc = "mounted"
    /\ hookInputs = 0
    /\ UNCHANGED vars

\* compute()
Compute ==
    /\ hookPc = "mounted"
    /\ hookInputs # 0
    /\ Len(workers) < MaxWorkers
    /\ workers' = workersAfterCompute(workers, workerRef, hookInputs)
    /\ isComputing' = TRUE
    /\ hookResult' = NoResult
    /\ workerRef' = Len(workers) + 1
    /\ UNCHANGED <<revision, hookPc, hookInputs, cmpVars, evVars, gridVars, slvVars, detVars, kepVars, rmVars>>

\* The worker's self.onmessage: computePorkchopGrid, then postMessage
WorkerRun(w) ==
    /\ workers[w].status = "started"
    /\ workers' = [workers EXCEPT ![w].status = "posted"]
    /\ UNCHANGED <<revision, hookPc, hookInputs, hookResult, isComputing, workerRef,
                   cmpVars, evVars, gridVars, slvVars, detVars, kepVars, rmVars>>

\* The hook's worker.onmessage for the result worker w posted
Deliver(w) ==
    /\ workers[w].status = "posted"
    /\ hookResult' = [from |-> w, data |-> WorkerOutput[revision][workers[w].inputs]]
    /\ isComputing' = FALSE
    /\ workers' = [workers EXCEPT ![w].status = "delivered"]
    /\ UNCHANGED <<revision, hookPc, hookInputs, workerRef, cmpVars, evVars, gridVars, slvVars, detVars, kepVars, rmVars>>

\* Worker w fails (its script does not load, or it throws): an error event
\* is queued for the hook
WorkerFail(w) ==
    /\ workers[w].status = "started"
    /\ workers' = [workers EXCEPT ![w].status = "failed", ![w].errorQueued = TRUE]
    /\ UNCHANGED <<revision, hookPc, hookInputs, hookResult, isComputing, workerRef,
                   cmpVars, evVars, gridVars, slvVars, detVars, kepVars, rmVars>>

\* The hook's worker.onerror
DeliverError(w) ==
    /\ hookPc = "mounted"
    /\ workers[w].errorQueued
    /\ isComputing' = FALSE
    /\ workers' = [workers EXCEPT ![w].errorQueued = FALSE]
    /\ UNCHANGED <<revision, hookPc, hookInputs, hookResult, workerRef,
                   cmpVars, evVars, gridVars, slvVars, detVars, kepVars, rmVars>>

\* The cleanup of the effect: workerRef.current?.terminate()
Unmount ==
    /\ hookPc = "mounted"
    /\ hookPc' = "unmounted"
    /\ workers' = terminate(workers, workerRef)
    /\ UNCHANGED <<revision, hookInputs, hookResult, isComputing, workerRef,
                   cmpVars, evVars, gridVars, slvVars, detVars, kepVars, rmVars>>

HookNext ==
    \/ Render
    \/ ComputeWithoutInputs
    \/ Compute
    \/ \E w \in 1 .. Len(workers) : WorkerRun(w)
    \/ \E w \in 1 .. Len(workers) : Deliver(w)
    \/ \E w \in 1 .. Len(workers) : WorkerFail(w)
    \/ \E w \in 1 .. Len(workers) : DeliverError(w)
    \/ Unmount

SpecHook == HookInit /\ [][HookNext]_vars

\* A call of a solver that has reached its loop.  solveTorchTransfer is part
\* of the "torch" revision only; solveLambert enters the loop with a finite x.
SolverInit ==
    /\ revision \in Revisions
    /\ slvPc = "loop"
    /\ slvKind \in IF revision = "torch" THEN SolverKinds ELSE SolverKinds \ {"torch"}
    /\ slvIter = 0
    /\ slvSteps = 0
    /\ slvIterate \in IF slvKind = "lambert" THEN {"finite"} ELSE {"finite", "nonfinite"}
    /\ CmpOff
    /\ EvOff
    /\ GridOff
    /\ HookOff
    /\ DetOff
    /\ KepOff
    /\ RmOff

\* One pass of the loop body
LoopPass(kind) ==
    /\ slvPc = "loop"
    /\ slvKind = kind
    /\ loopGuard(kind, slvIter)
    /\ \E outcome \in BodyOutcomes(kind, slvIterate) :
          /\ slvSteps' = slvSteps + 1
          /\ slvIterate' = iterateAfter(kind, slvIterate, outcome)
          /\ IF Continues(outcome)
             THEN slvIter' = slvIter + 1 /\ slvPc' = "loop"
             ELSE slvIter' = slvIter /\ slvPc' = "returned"
    /\ UNCHANGED <<revision, slvKind, cmpVars, evVars, gridVars, hookVars, detVars, kepVars, rmVars>>

KeplerPass == LoopPass("kepler")
KeplerHyperbolicPass == LoopPass("keplerHyperbolic")
LambertPass == LoopPass("lambert")
TorchPass == LoopPass("torch")

\* The loop condition fails: the code after the loop runs and the solver
\* returns
LoopExit ==
    /\ slvPc = "loop"
    /\ ~loopGuard(slvKind, slvIter)
    /\ slvPc' = "returned"
    /\ UNCHANGED <<revision, slvKind, slvIter, slvSteps, slvIterate,
                   cmpVars, evVars, gridVars, hookVars, detVars, kepVars, rmVars>>

SolverNext ==
    \/ KeplerPass
    \/ KeplerHyperbolicPass
    \/ LambertPass
    \/ TorchPass
    \/ LoopExit

\* A solver call is a sequential computation: it keeps running
SpecSolver == SolverInit /\ [][SolverNext]_vars /\ WF_vars(SolverNext)

RemapInit ==
    /\ revision = "torch"
    /\ rmPc = "ready"
    /\ rmOptions \in RemapOptions
    /\ rmIter = 0
    /\ rmRounds = 0
    /\ rmI = 0
    /\ rmCalls = 0
    /\ rmSampled = <<>>
    /\ rmSettled = FALSE
    /\ rmOut = "none"
    /\ CmpOff
    /\ EvOff
    /\ GridOff
    /\ HookOff
    /\ SlvOff
    /\ DetOff
    /\ KepOff

\* remapHybridInput up to its loop
RemapEnter ==
    /\ rmPc = "ready"
    /\ rmPc' = "loop"
    /\ rmIter' = 0
    /\ UNCHANGED <<revision, rmOptions, rmRounds, rmI, rmCalls, rmSampled, rmSettled,
                   rmOut, cmpVars, evVars, gridVars, hookVars, slvVars, detVars, kepVars>>

\* A pass of the loop begins: Lambert is re-solved, and without a solution
\* the function returns null
RemapSolve ==
    /\ rmPc = "loop"
    /\ NumLt(Num(rmIter), iterationsOf(rmOptions))
    /\ rmRounds' = rmRounds + 1
    /\ \E primary \in BOOLEAN :
          IF primary
          THEN /\ rmPc' = "source"
               /\ rmOut' = rmOut
          ELSE /\ rmPc' = "returned"
               /\ rmOut' = "null"
    /\ rmI' = 0
    /\ rmCalls' = 0
    /\ rmSettled' = FALSE
    /\ UNCHANGED <<revision, rmOptions, rmIter, rmSampled, cmpVars, evVars, gridVars, hookVars, slvVars, detVars, kepVars>>

\* The sampleBestAlignedState call for an endpoint is over
SampleReturn(calls) ==
    /\ rmSampled' = Append(rmSampled, calls)
    /\ rmPc' = IF rmPc = "source" THEN "destination" ELSE "compare"
    /\ rmI' = 0
    /\ rmCalls' = 0

\* sampleBestAlignedState without a window: the state at the anchor time
SampleAnchor ==
    /\ rmPc \in {"source", "destination"}
    /\ anchorOnly(window_sOf(rmOptions), samplesOf(rmOptions))
    /\ SampleReturn(1)
    /\ UNCHANGED <<revision, rmOptions, rmIter, rmRounds, rmSettled, rmOut, cmpVars, evVars, gridVars, hookVars, slvVars, detVars, kepVars>>

\* One pass of `for (let i = 0; i <= samples; i++)`: one stateAtTime call
SamplePass ==
    /\ rmPc \in {"source", "destination"}
    /\ ~anchorOnly(window_sOf(rmOptions), samplesOf(rmOptions))
    /\ NumLe(Num(rmI), samplesOf(rmOptions))
    /\ rmI' = rmI + 1
    /\ rmCalls' = rmCalls + 1
    /\ UNCHANGED <<revision, rmPc, rmOptions, rmIter, rmRounds, rmSampled, rmSettled,
                   rmOut, cmpVars, evVars, gridVars, hookVars, slvVars, detVars, kepVars>>

\* The sampling loop is over
SampleExit ==
    /\ rmPc \in {"source", "destination"}
    /\ ~anchorOnly(window_sOf(rmOptions), samplesOf(rmOptions))
    /\ ~NumLe(Num(rmI), samplesOf(rmOptions))
    /\ SampleReturn(rmCalls)
    /\ UNCHANGED <<revision, rmOptions, rmIter, rmRounds, rmSettled, rmOut, cmpVars, evVars, gridVars, hookVars, slvVars, detVars, kepVars>>

\* The rest of the pass: the null tests, the deltas, the break
RemapCompare ==
    /\ rmPc = "compare"
    /\ \E fate \in RoundFates(window_sOf(rmOptions), samplesOf(rmOptions),
                              SubSeq(rmSampled, Len(rmSampled) - 1, Len(rmSampled))) :
          /\ rmSettled' = (fate = "settled")
          /\ rmPc' = IF fate = "moved" THEN "loop" ELSE "returned"
          /\ rmIter' = IF fate = "moved" THEN rmIter + 1 ELSE rmIter
          /\ rmOut' = CASE fate = "moved" -> rmOut
                        [] fate = "settled" -> "input"
                        [] OTHER -> "null"
    /\ UNCHANGED <<revision, rmOptions, rmRounds, rmI, rmCalls, rmSampled, cmpVars, evVars, gridVars, hookVars, slvVars, detVars, kepVars>>

\* The loop condition fails: the remapped input is returned
RemapExit ==
    /\ rmPc = "loop"
    /\ ~NumLt(Num(rmIter), iterationsOf(rmOptions))
    /\ rmPc' = "returned"
    /\ rmOut' = "input"
    /\ UNCHANGED <<revision, rmOptions, rmIter, rmRounds, rmI, rmCalls, rmSampled,
                   rmSettled, cmpVars, evVars, gridVars, hookVars, slvVars, detVars, kepVars>>

RemapNext ==
    \/ RemapEnter
    \/ RemapSolve
    \/ SampleAnchor
    \/ SamplePass
    \/ SampleExit
    \/ RemapCompare
    \/ RemapExit

SpecRemap == RemapInit /\ [][RemapNext]_vars

-----------------------------------------------------------------------------
(* Claims about the solver loops *)

\* C12: every solver call returns, and the body of its loop runs at most
\* 1000 times in solveKepler (elliptic and hyperbolic), 15 times in
\* solveLambert and 20 times in solveTorchTransfer, whether or not the
\* convergence test is ever met and also when the iterate is NaN.
C12_SolversTerminate ==
    /\ [](slvSteps <= (CASE slvKind \in {"kepler", "keplerHyperbolic"} -> 1000
                         [] slvKind = "lambert" -> 15
                         [] slvKind = "torch" -> 20
                         [] OTHER -> 0))
    /\ <>(slvPc = "returned")

\* solveKepler has run to its ceiling on a NaN iterate and has returned
C12_Witness ==
    /\ slvPc = "returned"
    /\ slvKind = "kepler"
    /\ slvIterate = "nonfinite"
    /\ slvSteps = 1000

DetInit ==
    /\ revision \in Revisions
    /\ detCatalog \in 1 .. Len(Catalogs)
    /\ detLog = <<>>
    /\ CmpOff
    /\ EvOff
    /\ GridOff
    /\ HookOff
    /\ SlvOff
    /\ KepOff
    /\ RmOff

\* The caller runs a sweep for request k with the catalogs it holds
Sweep(k) ==
    /\ detCatalog # 0
    /\ Len(detLog) < MaxCalls
    /\ detLog' = Append(detLog,
                    [request |-> k, catalog |-> detCatalog,
                     result |-> invoke(revision, k, detCatalog, detLog)])
    /\ UNCHANGED <<revision, detCatalog, cmpVars, evVars, gridVars, hookVars, slvVars, kepVars, rmVars>>

\* The caller loads other catalogs
ReloadCatalog(c) ==
    /\ detCatalog # 0
    /\ c # detCatalog
    /\ detCatalog' = c
    /\ UNCHANGED <<revision, detLog, cmpVars, evVars, gridVars, hookVars, slvVars, kepVars, rmVars>>

DetNext ==
    \/ \E k \in 1 .. Len(DetRequests) : Sweep(k)
    \/ \E c \in 1 .. Len(Catalogs) : ReloadCatalog(c)

SpecDeterminism == DetInit /\ [][DetNext]_vars

-----------------------------------------------------------------------------
(* Claims about repeated sweeps *)

KeplerInit ==
    /\ revision \in Revisions
    /\ kepPc = "ready"
    /\ \E input \in KeplerInputs : kepM = input[1] /\ kepEcc = input[2]
    /\ kepIter = 0
    /\ kepOut = Zero
    /\ CmpOff
    /\ EvOff
    /\ GridOff
    /\ HookOff
    /\ SlvOff
    /\ DetOff
    /\ RmOff

\* solveKepler up to its loop: the dispatch on e, Mn, the initial guess E = Mn
SolveKeplerEnter ==
    /\ kepPc = "ready"
    /\ IF NumGe(kepEcc, One)
       THEN kepOut' = HyperbolicAnomaly /\ kepPc' = "done"
       ELSE kepOut' = normalizeAnomaly(kepM) /\ kepPc' = "loop"
    /\ UNCHANGED <<revision, kepM, kepEcc, kepIter, cmpVars, evVars, gridVars,
                   hookVars, slvVars, detVars, rmVars>>

\* One pass of the loop: E -= dE; if (Math.abs(dE) < 1e-6) break
SolveKeplerPass ==
    /\ kepPc = "loop"
    /\ loopGuard("kepler", kepIter)
    /\ LET dE == newtonStep(kepOut, normalizeAnomaly(kepM), kepEcc, eDenomOf(kepEcc))
       IN  /\ kepOut' = NumSub(kepOut, dE)
           /\ IF NumLt(NumAbs(dE), Tolerance)
              THEN kepPc' = "done" /\ kepIter' = kepIter
              ELSE kepPc' = "loop" /\ kepIter' = kepIter + 1
    /\ UNCHANGED <<revision, kepM, kepEcc, cmpVars, evVars, gridVars,
                   hookVars, slvVars, detVars, rmVars>>

\* The loop ends at its ceiling: return E
SolveKeplerReturn ==
    /\ kepPc = "loop"
    /\ ~loopGuard("kepler", kepIter)
    /\ kepPc' = "done"
    /\ UNCHANGED <<revision, kepM, kepEcc, kepIter, kepOut, cmpVars, evVars, gridVars,
                   hookVars, slvVars, detVars, rmVars>>

KeplerNext ==
    \/ SolveKeplerEnter
    \/ SolveKeplerPass
    \/ SolveKeplerReturn

SpecKepler == KeplerInit /\ [][KeplerNext]_vars

-----------------------------------------------------------------------------
(* Claims about solveKepler *)

\* M' = E - e*sin(E) recomputed from the returned anomaly (in units of pi)
RoundTrip == NumSub(kepOut, eSin(kepEcc, kepOut))

Nearest(x) == NumFloor(NumAdd(x, Frac(1, 2)))

-----------------------------------------------------------------------------
(* Properties of the comparator *)

IsFailure(r) == r # NULL /\ r.outcome # Success

\* C1: for non-null a and b, if at least one of them is a Success then the
\* result bestTransferResult returns is a Success.
C1_SuccessBeatsFailure ==
    (cmpPc = "done" /\ cmpA # NULL /\ cmpB # NULL
        /\ (cmpA.outcome = Success \/ cmpB.outcome = Success))
    => cmpOut.outcome = Success

\* a failure first, a Success second: the Success is returned
C1_Witness ==
    /\ cmpPc = "done"
    /\ cmpA.outcome = Fail_InsufficientDV
    /\ cmpB.outcome = Success
    /\ cmpOut = cmpB

\* The standing of a result under the comparator's criteria, in the order it
\* consults them.
Standing(rev, r, accel) ==
    IF r.outcome = Success THEN <<"success">>
    ELSE <<"failure", tryGetMinimumDVneeded_mps(r),
           tryGetMinimumAccelerationNeeded(rev, r, accel),
           r.outcome = Fail_CodePathNotImplemented>>

C5_OrderIndependent ==
    (cmpPc = "done" /\ cmpA # NULL /\ cmpB # NULL) =>
        LET ab == bestTransferResult(revision, cmpA, cmpB, cmpAccel)
            ba == bestTransferResult(revision, cmpB, cmpA, cmpAccel)
        IN  /\ cmpOut = ab
            /\ \/ ab = ba
               \/ Standing(revision, ab, cmpAccel) = Standing(revision, ba, cmpAccel)

ThirdResults ==
    {makeResult(o, Num(v), Num(v2)) :
        o \in TransferOutcome, v \in 0 .. MaxThirdPayload, v2 \in 0 .. MaxThirdPayload}

C5_Transitive ==
    (cmpPc = "done" /\ cmpA # NULL /\ cmpB # NULL) =>
        \A c \in ThirdResults :
            (/\ bestTransferSide(revision, cmpA, cmpB, cmpAccel) = "a"
             /\ bestTransferSide(revision, cmpB, c, cmpAccel) = "a")
            => bestTransferSide(revision, cmpA, c, cmpAccel) = "a"

\* C5: bestTransferResult induces a total preorder for a fixed acceleration:
\* the standing of the winner does not depend on the argument order, and
\* preference is transitive.
C5_TotalPreorder == C5_OrderIndependent /\ C5_Transitive

\* C6: bestTransferResult returns null only when both arguments are null; if
\* exactly one is null it returns the other, and otherwise it returns one of
\* the two arguments.
C6_NullOnlyIfBothNull ==
    cmpPc = "done" =>
        /\ (cmpOut = NULL) <=> (cmpA = NULL /\ cmpB = NULL)
        /\ (cmpA = NULL /\ cmpB # NULL) => cmpOut = cmpB
        /\ (cmpB = NULL /\ cmpA # NULL) => cmpOut = cmpA
        /\ cmpOut \in {cmpA, cmpB}

\* exactly one argument is null and the other one comes back
C6_Witness ==
    /\ cmpPc = "done"
    /\ cmpA = NULL
    /\ cmpB # NULL
    /\ cmpOut = cmpB

\* C7: of two Fail_InsufficientDV failures the one returned has the smaller
\* value, and a Fail_InsufficientDV failure is preferred over a failure of any
\* other kind, in either argument order.
C7_InsufficientDVOrdering ==
    (cmpPc = "done" /\ IsFailure(cmpA) /\ IsFailure(cmpB)) =>
        /\ (cmpA.outcome = Fail_InsufficientDV /\ cmpB.outcome = Fail_InsufficientDV)
              => /\ cmpOut.outcome = Fail_InsufficientDV
                 /\ cmpOut.value = NumMin(cmpA.value, cmpB.value)
        /\ (cmpA.outcome = Fail_InsufficientDV /\ cmpB.outcome # Fail_InsufficientDV)
              => cmpOut = cmpA
        /\ (cmpB.outcome = Fail_InsufficientDV /\ cmpA.outcome # Fail_InsufficientDV)
              => cmpOut = cmpB

\* two Fail_InsufficientDV failures with different needs, the larger first
C7_Witness ==
    /\ cmpPc = "done"
    /\ cmpA.outcome = Fail_InsufficientDV
    /\ cmpB.outcome = Fail_InsufficientDV
    /\ NumLt(cmpB.value, cmpA.value)
    /\ cmpA.value2 # cmpA.value
    /\ cmpOut = cmpB

\* The acceleration still needed that C24 says a failure exposes: the two
\* formulas it states, and for the other kinds what the code computes
AccelNeededAsClaimed(r, accel) ==
    CASE r.outcome = Fail_BurnLongerThanTransfer ->
            NumMul(accel, NumDiv(r.value, r.value2))
      [] r.outcome = Fail_LaunchInPast ->
            NumDiv(accel, NumSub(One, NumDiv(r.value, r.value2)))
      [] OTHER -> tryGetMinimumAccelerationNeeded("torch", r, accel)

\* C24 as stated: of two failures, neither a Fail_InsufficientDV,
\* bestTransferResult returns one with the smaller acceleration still needed
\* when both expose one, and the one that exposes it when exactly one does;
\* the value is accel * (value / value2) for Fail_BurnLongerThanTransfer and
\* accel / (1 - value / value2) for Fail_LaunchInPast.
C24_SmallerAccelerationNeeded ==
    (/\ cmpPc = "done"
     /\ IsFailure(cmpA) /\ IsFailure(cmpB)
     /\ cmpA.outcome # Fail_InsufficientDV /\ cmpB.outcome # Fail_InsufficientDV)
    => LET aAccel == AccelNeededAsClaimed(cmpA, cmpAccel)
           bAccel == AccelNeededAsClaimed(cmpB, cmpAccel)
           outAccel == AccelNeededAsClaimed(cmpOut, cmpAccel)
       IN  /\ tryGetMinimumAccelerationNeeded(revision, cmpA, cmpAccel) = aAccel
           /\ tryGetMinimumAccelerationNeeded(revision, cmpB, cmpAccel) = bAccel
           /\ (aAccel # NoNumber /\ bAccel # NoNumber)
              => /\ cmpOut \in {cmpA, cmpB}
                 /\ NumLe(outAccel, aAccel)
                 /\ NumLe(outAccel, bAccel)
           /\ (aAccel # NoNumber /\ bAccel = NoNumber) => cmpOut = cmpA
           /\ (aAccel = NoNumber /\ bAccel # NoNumber) => cmpOut = cmpB

\* C25: bestTransferResult never returns a Fail_CodePathNotImplemented
\* result when the other argument is a non-null result of another outcome,
\* whichever of the two comes first.
C25_NotImplementedIsWorst ==
    (/\ cmpPc = "done"
     /\ cmpA # NULL /\ cmpB # NULL
     /\ (cmpA.outcome = Fail_CodePathNotImplemented)
            # (cmpB.outcome = Fail_CodePathNotImplemented))
    => /\ cmpOut.outcome # Fail_CodePathNotImplemented
       /\ bestTransferResult(revision, cmpB, cmpA, cmpAccel).outcome
            # Fail_CodePathNotImplemented

\* Fail_CodePathNotImplemented comes first, against a failure that exposes
\* neither a delta-V nor an acceleration: the second argument is returned
C25_Witness ==
    /\ cmpPc = "done"
    /\ cmpA.outcome = Fail_CodePathNotImplemented
    /\ cmpB.outcome = Fail_Parabolic
    /\ cmpOut = cmpB

C14_ArrivalBeforeLaunch ==
    (evPc = "done" /\ NumLe(NumSub(evInput.arrivalTime_s, evInput.launchTime_s), Zero))
    => /\ evOut.result.outcome = Fail_ArrivalBeforeLaunch
       /\ evOut.boostDV_mps = Zero
       /\ evOut.decelDV_mps = Zero
       /\ evOut.totalDV_mps = Zero
       /\ evOut.boostBurnTime_s = Zero
       /\ evOut.decelBurnTime_s = Zero
       /\ evOut.transferOrbit = NoOrbit

\* An arrival not after the launch, with a hybrid remap whose sampling would
\* find endpoints in the right order
C14_Witness ==
    /\ evPc = "done"
    /\ revision = "torch"
    /\ NumLe(evInput.arrivalTime_s, evInput.launchTime_s)
    /\ evInput.hybridRemap.requested
    /\ evInput.hybridRemap.found
    /\ NumGt(evInput.hybridRemap.arrivalTime_s, evInput.hybridRemap.launchTime_s)
    /\ evOut.result.outcome = Fail_ArrivalBeforeLaunch

\* The Lambert and the Torch solution of the evaluator's input
LambertOf(input) == solvePureLambertTransfer("torch", input)
TorchOf(input) == solveTorchTransfer(input)

\* C16 as stated: of the Lambert and the Torch solution for the same input
\* the evaluator selects the one with the lower total delta-V when both
\* succeed, the successful one when exactly one succeeds, and the one whose
\* failure the comparator prefers when neither does.  (Inputs without a
\* hybrid remap, for which the evaluator returns that selection.)
C16_LowerDVOfLambertAndTorch ==
    (evPc = "done" /\ revision = "torch" /\ ~evInput.hybridRemap.requested)
    => LET lambert == LambertOf(evInput)
           torch == TorchOf(evInput)
       IN  /\ (isSuccess(lambert) /\ isSuccess(torch))
                => /\ evOut \in {lambert, torch}
                   /\ NumLe(evOut.totalDV_mps, lambert.totalDV_mps)
                   /\ NumLe(evOut.totalDV_mps, torch.totalDV_mps)
           /\ (isSuccess(lambert) /\ ~isSuccess(torch)) => evOut = lambert
           /\ (~isSuccess(lambert) /\ isSuccess(torch)) => evOut = torch
           /\ (~isSuccess(lambert) /\ ~isSuccess(torch))
                => evOut = IF bestTransferSide("torch", lambert.result, torch.result,
                                               evInput.fleetAcceleration_mps2) = "a"
                           THEN lambert ELSE torch

\* C17 as stated: every Success the evaluator returns has
\* launchTime_s = input launch time - boostBurnTime_s / 2 and
\* arrivalTime_s = input arrival time + decelBurnTime_s / 2, with the burn
\* durations of that same solution.
C17_SuccessTimesCentred ==
    (evPc = "done" /\ isSuccess(evOut))
    => /\ evOut.launchTime_s = NumSub(evInput.launchTime_s, Half(evOut.boostBurnTime_s))
       /\ evOut.arrivalTime_s = NumAdd(evInput.arrivalTime_s, Half(evOut.decelBurnTime_s))

\* C17, amended: without a hybrid remap, a Success of the Lambert path (it
\* has a transfer orbit) has its launch moved earlier by half its boost burn
\* and its arrival later by half its decel burn, and a Success of the Torch
\* solver (no transfer orbit) has the launch and arrival time of the input.
C17_LambertCentredTorchUnshifted ==
    (evPc = "done" /\ isSuccess(evOut) /\ ~evInput.hybridRemap.requested)
    => IF evOut.transferOrbit.isNull
       THEN /\ evOut.launchTime_s = evInput.launchTime_s
            /\ evOut.arrivalTime_s = evInput.arrivalTime_s
       ELSE /\ evOut.launchTime_s
                 = NumSub(evInput.launchTime_s, Half(evOut.boostBurnTime_s))
            /\ evOut.arrivalTime_s
                 = NumAdd(evInput.arrivalTime_s, Half(evOut.decelBurnTime_s))

\* A Lambert Success with burns that last, returned without a hybrid remap
C17_Witness ==
    /\ evPc = "done"
    /\ isSuccess(evOut)
    /\ ~evInput.hybridRemap.requested
    /\ ~evOut.transferOrbit.isNull
    /\ NumGt(evOut.boostBurnTime_s, Zero)
    /\ NumGt(evOut.decelBurnTime_s, Zero)
    /\ NumLt(evOut.launchTime_s, evInput.launchTime_s)

\* The outcomes that solvePureLambertTransfer returns from its burn checks,
\* which it reaches once the orbit checks have passed
BurnCheckOutcomes == {Fail_BurnLongerThanTransfer, Fail_BurnNaN, Success}

\* C18 as stated: in the Lambert evaluator, once the orbit checks pass, a
\* burn duration that is not finite (NaN or infinite) gives Fail_BurnNaN,
\* finite burns whose sum exceeds twice the transit duration give
\* Fail_BurnLongerThanTransfer, and Success is returned only when both burn
\* durations are finite and their sum is at most twice the transit duration.
C18_NonFiniteBurnIsBurnNaN ==
    evPc = "done"
    => LET lambert == solvePureLambertTransfer(revision, evInput)
           boost == lambert.boostBurnTime_s
           decel == lambert.decelBurnTime_s
           outcome == lambert.result.outcome
       IN  outcome \in BurnCheckOutcomes
           => /\ (~IsFinite(boost) \/ ~IsFinite(decel)) => outcome = Fail_BurnNaN
              /\ (/\ IsFinite(boost) /\ IsFinite(decel)
                  /\ NumGt(NumAdd(boost, decel),
                           NumMul(Num(2), lambert.transitDuration_s)))
                 => outcome = Fail_BurnLongerThanTransfer
              /\ outcome = Success
                 => /\ IsFinite(boost) /\ IsFinite(decel)
                    /\ NumLe(NumAdd(boost, decel),
                             NumMul(Num(2), lambert.transitDuration_s))

\* A transfer orbit that C19 says is rejected as parabolic: its mean anomaly
\* at epoch is not finite, or its eccentricity is within the relative
\* tolerance of 1
rejectedAsParabolic(transferOrbit) ==
    \/ ~transferOrbit.meanAnomalyFinite
    \/ approximately(transferOrbit.eccentricity, One)

\* C19 as stated: in the Lambert evaluator, a transfer orbit with a
\* non-finite mean anomaly at epoch or with an eccentricity within the
\* relative tolerance 1e-6 of 1 gives Fail_Parabolic, whether it is the
\* orbit of the primary branch or of the fallback branch tried after the
\* primary collides.
C19_BadOrbitIsParabolic ==
    evPc = "done"
    => LET lambert == solvePureLambertTransfer(revision, evInput)
           chosen == chooseLambert(revision, evInput.prograde, evInput.retrograde)
           primary == chosen.primary
           secondary == chosen.secondary
       IN  (/\ NumGt(NumSub(evInput.arrivalTime_s, evInput.launchTime_s), Zero)
            /\ ~primary.isNull)
           => /\ rejectedAsParabolic(primary.orbit)
                 => lambert.result.outcome = Fail_Parabolic
              /\ (/\ ~rejectedAsParabolic(primary.orbit)
                  /\ primary.orbit.collides
                  /\ ~secondary.isNull
                  /\ rejectedAsParabolic(secondary.orbit))
                 => lambert.result.outcome = Fail_Parabolic

\* The evaluator's input with the given Lambert branch as the only one
WithOnlyBranch(input, branch) ==
    [input EXCEPT !.prograde = branch, !.retrograde = NoLambert]

\* C20: in the Lambert evaluator (a) of two Lambert branches the primary is
\* one with the lower total delta-V and the other is the fallback; (b)
\* Fail_WouldCollideWithBody is returned only if the primary orbit collides
\* and the fallback is absent or collides too; (c) when the primary orbit
\* collides and a fallback exists, the outcome and the reported delta-V are
\* those that the fallback branch alone gives.
C20_FallbackOnCollision ==
    (evPc = "done" /\ NumGt(NumSub(evInput.arrivalTime_s, evInput.launchTime_s), Zero))
    => LET lambert == solvePureLambertTransfer(revision, evInput)
           chosen == chooseLambert(revision, evInput.prograde, evInput.retrograde)
           primary == chosen.primary
           secondary == chosen.secondary
           alone == solvePureLambertTransfer(revision, WithOnlyBranch(evInput, secondary))
       IN  /\ (~evInput.prograde.isNull /\ ~evInput.retrograde.isNull)
              => /\ \/ primary = evInput.prograde /\ secondary = evInput.retrograde
                    \/ primary = evInput.retrograde /\ secondary = evInput.prograde
                 /\ NumLe(primary.totalDV, secondary.totalDV)
           /\ lambert.result.outcome = Fail_WouldCollideWithBody
              => /\ ~primary.isNull
                 /\ primary.orbit.collides
                 /\ secondary.isNull \/ secondary.orbit.collides
           /\ (/\ ~primary.isNull
               /\ orbitRejection(primary.orbit) = ""
               /\ primary.orbit.collides
               /\ ~secondary.isNull)
              => /\ lambert.result.outcome = alone.result.outcome
                 /\ lambert.boostDV_mps = alone.boostDV_mps
                 /\ lambert.decelDV_mps = alone.decelDV_mps
                 /\ lambert.totalDV_mps = alone.totalDV_mps

\* The primary orbit collides and the fallback branch succeeds with its own
\* delta-V, which is larger than the primary's
C20_Witness ==
    /\ evPc = "done"
    /\ LET lambert == solvePureLambertTransfer(revision, evInput)
           chosen == chooseLambert(revision, evInput.prograde, evInput.retrograde)
       IN  /\ ~chosen.primary.isNull
           /\ chosen.primary.orbit.collides
           /\ ~chosen.secondary.isNull
           /\ isSuccess(lambert)
           /\ lambert.totalDV_mps = chosen.secondary.totalDV
           /\ NumLt(chosen.primary.totalDV, chosen.secondary.totalDV)

\* C21 as stated: in solveTorchTransfer, for each of the three seeds, the
\* burns are those of the seed values of (u, v, w, z) when the Newton
\* iteration ends with a squared residual that is larger than the seed's or
\* not finite, and those of the Newton values otherwise.
C21_TorchRevertsToSeed ==
    (/\ evPc = "done"
     /\ NumGt(NumSub(evInput.arrivalTime_s, evInput.launchTime_s), Zero)
     /\ IsFinite(evInput.fleetAcceleration_mps2)
     /\ NumGt(evInput.fleetAcceleration_mps2, Zero))
    => LET torch == evInput.torch
           solution == solveTorchTransfer(evInput)
       IN  IF newtonRejected(torch.firstError, torch.currentError)
           THEN /\ solution.boostDV_mps = torch.seedBoost
                /\ solution.decelDV_mps = torch.seedDecel
           ELSE /\ solution.boostDV_mps = torch.newtonBoost
                /\ solution.decelDV_mps = torch.newtonDecel

\* The best of the Lambert and the Torch solution of an input
BestOf(input) ==
    bestSolution("torch", solvePureLambertTransfer("torch", input),
                 solveTorchTransfer(input), evInput.fleetAcceleration_mps2)

\* The evaluator's output is the given solution in every field that the
\* hybrid delta-V adjustment leaves alone
Selected(solution) ==
    /\ evOut.result = solution.result
    /\ evOut.launchTime_s = solution.launchTime_s
    /\ evOut.arrivalTime_s = solution.arrivalTime_s
    /\ evOut.transitDuration_s = solution.transitDuration_s
    /\ evOut.transferOrbit = solution.transferOrbit

\* C22: when a hybrid-remapped input exists and the direct and the remapped
\* best solution both succeed, the evaluator selects the remapped one if and
\* only if its transit duration is strictly greater and its total delta-V
\* strictly lower than the direct one's, and the direct one otherwise; when
\* exactly one of the two succeeds, it selects that one.
C22_RemappedOnlyIfLongerAndCheaper ==
    (/\ evPc = "done"
     /\ revision = "torch"
     /\ ~remapHybridInput(evInput).isNull)
    => LET directBest == BestOf(evInput)
           mappedBest == BestOf(remapHybridInput(evInput).input)
       IN  /\ (isSuccess(directBest) /\ isSuccess(mappedBest))
              => IF /\ NumGt(mappedBest.transitDuration_s, directBest.transitDuration_s)
                    /\ NumLt(mappedBest.totalDV_mps, directBest.totalDV_mps)
                 THEN Selected(mappedBest)
                 ELSE Selected(directBest)
           /\ (isSuccess(directBest) /\ ~isSuccess(mappedBest)) => Selected(directBest)
           /\ (~isSuccess(directBest) /\ isSuccess(mappedBest)) => Selected(mappedBest)

\* Both succeed and the remapped solution, longer and cheaper, is selected
C22_Witness ==
    /\ evPc = "done"
    /\ revision = "torch"
    /\ ~remapHybridInput(evInput).isNull
    /\ LET directBest == BestOf(evInput)
           mappedBest == BestOf(remapHybridInput(evInput).input)
       IN  /\ isSuccess(directBest)
           /\ isSuccess(mappedBest)
           /\ NumGt(mappedBest.transitDuration_s, directBest.transitDuration_s)
           /\ NumLt(mappedBest.totalDV_mps, directBest.totalDV_mps)
           /\ evOut.transitDuration_s = mappedBest.transitDuration_s
           /\ evOut.transitDuration_s # directBest.transitDuration_s

\* The solutions the evaluator hands to applyHybridDVAdjustment for its
\* input: the direct best solution and, when a remapped input exists, the
\* remapped best solution
AdjustmentCandidates ==
    {BestOf(evInput)}
    \cup (IF remapHybridInput(evInput).isNull THEN {}
          ELSE {BestOf(remapHybridInput(evInput).input)})

\* The transit gains it hands over with them: none, or the gain of the
\* remapped over the direct transit in days
AdjustmentGains ==
    {Zero}
    \cup (IF remapHybridInput(evInput).isNull THEN {}
          ELSE {NumDiv(NumSub(BestOf(remapHybridInput(evInput).input).transitDuration_s,
                              BestOf(evInput).transitDuration_s), Num(86400))})

\* What C23 says of a solution and its adjustment
AdjustedAsClaimed(raw, adjusted, fleetAcceleration_mps2) ==
    IF ~isSuccess(raw) THEN adjusted = raw
    ELSE /\ NumLe(Zero, adjusted.totalDV_mps)
         /\ NumLe(adjusted.totalDV_mps, raw.totalDV_mps)
         /\ NumGt(raw.totalDV_mps, Zero)
            => LET factor == NumDiv(adjusted.totalDV_mps, raw.totalDV_mps)
               IN  /\ adjusted.boostDV_mps = NumMul(raw.boostDV_mps, factor)
                   /\ adjusted.decelDV_mps = NumMul(raw.decelDV_mps, factor)
         /\ adjusted.totalDV_mps = NumAdd(adjusted.boostDV_mps, adjusted.decelDV_mps)
         /\ adjusted.boostBurnTime_s
              = NumDiv(adjusted.boostDV_mps, fleetAcceleration_mps2)
         /\ adjusted.decelBurnTime_s
              = NumDiv(adjusted.decelDV_mps, fleetAcceleration_mps2)

-----------------------------------------------------------------------------
(* Claims about remapHybridInput *)

\* C26 as stated: remapHybridInput re-solves in at most 4 rounds whatever
\* remapIterations is, takes between 8 and 160 state samples per endpoint in
\* every round whatever remapSamples is, and stops after the first round in
\* which both endpoints moved by less than 60 seconds.
C26_RemapRoundsAndSamples ==
    /\ rmRounds <= 4
    /\ \A k \in DOMAIN rmSampled : rmSampled[k] >= 8 /\ rmSampled[k] <= 160
    /\ rmSettled => rmPc = "returned"

-----------------------------------------------------------------------------
(* Claims about the grid engine *)

\* The positions <<i, j>> of the grid's entries, and of its non-null cells
GridPositions(grid) ==
    UNION {{<<i, j>> : j \in 1 .. Len(grid[i])} : i \in 1 .. Len(grid)}

NonNullPositions(grid) ==
    {p \in GridPositions(grid) : ~grid[p[1]][p[2]].isNull}

\* C2: after computePorkchopGrid, minDV is the minimum totalDV over the
\* non-null cells, optimal is one of them and has totalDV = minDV, and with no
\* non-null cell optimal is null and minDV is 0.
C2_MinDVAndOptimal ==
    gridPc = "done" =>
        LET r == gridRun.result
            cells == NonNullPositions(r.grid)
        IN  IF cells = {}
            THEN r.optimal = NullCell /\ r.minDV = Zero
            ELSE /\ r.optimal # NullCell
                 /\ \E p \in cells : r.grid[p[1]][p[2]] = r.optimal
                 /\ r.optimal.totalDV = r.minDV
                 /\ \A p \in cells : NumLe(r.minDV, r.grid[p[1]][p[2]].totalDV)

\* A sweep with null entries and with non-null cells of different cost, the
\* last of which is not the cheapest
C2_Witness ==
    /\ gridPc = "done"
    /\ gridRun.sweep
    /\ LET r == gridRun.result
           last == r.grid[Len(r.grid)][Len(r.grid)]
       IN  /\ \E p \in GridPositions(r.grid) : r.grid[p[1]][p[2]].isNull
           /\ ~last.isNull
           /\ NumGt(last.totalDV, r.minDV)
           /\ r.optimal.totalDV = r.minDV

\* C3 as stated: a sweep that reaches the loops evaluates all N x N cells,
\* every row has N entries, and the non-null cells plus the sum of
\* failureCounts number N x N.
C3_SweepCountsEveryCell ==
    (gridPc = "done" /\ gridRun.sweep) =>
        LET r == gridRun.result
            N == gridRun.N
        IN  /\ Num(Len(r.grid)) = N
            /\ \A i \in 1 .. Len(r.grid) : Num(Len(r.grid[i])) = N
            /\ Num(gridRun.evaluations) = NumMul(N, N)
            /\ Num(Cardinality(NonNullPositions(r.grid))
                   + SumCounts(r.failureCounts, Fail_CodePathNotImplemented))
               = NumMul(N, N)

\* C9: every non-null cell of the returned grid has
\* transitDays = arrivalDay - launchDay.
C9_CellTransitDays ==
    gridPc = "done" =>
        LET r == gridRun.result
        IN  \A p \in NonNullPositions(r.grid) :
                LET cell == r.grid[p[1]][p[2]]
                IN  cell.transitDays = NumSub(cell.arrivalDay, cell.launchDay)

\* A sweep with a cell whose burns last and whose launch is therefore moved
C9_Witness ==
    /\ gridPc = "done"
    /\ \E p \in NonNullPositions(gridRun.result.grid) :
          LET cell == gridRun.result.grid[p[1]][p[2]]
          IN  /\ NumGt(cell.transitDays, Zero)
              /\ cell.boostBurnDays # Undefined
              /\ NumGt(cell.boostBurnDays, Zero)

\* C10 as stated: for every gridResolution the grid size N is floor of it
\* clamped to 20..150, the grid has N rows of N columns and the evaluator is
\* called at most 22,500 times.
C10_GridSizeClamped ==
    (gridPc = "done" /\ gridRun.N # NoNumber) =>
        /\ NumLe(Num(20), gridRun.N)
        /\ NumLe(gridRun.N, Num(150))
        /\ gridRun.sweep =>
            /\ Num(Len(gridRun.result.grid)) = gridRun.N
            /\ \A i \in 1 .. Len(gridRun.result.grid) :
                    Num(Len(gridRun.result.grid[i])) = gridRun.N
            /\ gridRun.evaluations <= 22500


\* What the claim C11 expects to be recorded for an evaluator solution: its
\* own outcome unless it is a Success that launches before the reference
\* epoch, exceeds the cap or is hyperbolic, looked at in that order.
ExpectedOutcome(ctx, solution) ==
    IF solution.result.outcome # Success THEN solution.result.outcome
    ELSE IF NumLt(solution.launchTime_s, ctx.startTime_s) THEN Fail_LaunchInPast
    ELSE IF NumGt(solution.totalDV_mps, NumMul(Num(1000), ctx.dvCap_kms))
    THEN Fail_InsufficientDV
    ELSE IF ~solution.transferOrbit.isNull
            /\ ~NumLt(solution.transferOrbit.eccentricity, One)
    THEN Fail_Hyperbolic
    ELSE Success

\* The evaluator's solutions of a sweep, by grid position
SweepSolutions(rev, ctx, grid) ==
    [p \in GridPositions(grid) |->
        solveTwoBurnLambertTransfer(rev, cellInput(ctx, p[1] - 1, p[2] - 1))]

DowngradesHold(ctx, r, solutions) ==
    /\ \A p \in DOMAIN solutions :
          LET cell == r.grid[p[1]][p[2]]
              solution == solutions[p]
          IN  /\ cell.isNull <=> ExpectedOutcome(ctx, solution) # Success
              /\ ~cell.isNull =>
                    /\ NumGe(NumMul(cell.launchDay, Num(86400)), ctx.startTime_s)
                    /\ NumLe(cell.totalDV, ctx.dvCap_kms)
                    /\ solution.transferOrbit.isNull
                          \/ NumLt(solution.transferOrbit.eccentricity, One)
    /\ \A outcome \in {Fail_LaunchInPast, Fail_InsufficientDV, Fail_Hyperbolic} :
          CountOf(r.failureCounts, outcome)
            = Cardinality({p \in DOMAIN solutions :
                              ExpectedOutcome(ctx, solutions[p]) = outcome})

\* C11: every non-null cell of a sweep launches at or after the reference
\* epoch, costs at most the delta-V cap and has no hyperbolic transfer orbit;
\* an evaluator Success that fails one of the three is a null entry counted
\* as Fail_LaunchInPast, Fail_InsufficientDV or Fail_Hyperbolic, the first of
\* them in that order that applies.
C11_DowngradedSuccesses ==
    (gridPc = "done" /\ gridRun.sweep) =>
        DowngradesHold(gridContext(gridInput), gridRun.result,
                       SweepSolutions(revision, gridContext(gridInput),
                                      gridRun.result.grid))

HasDowngrades(ctx, r, solutions) ==
    /\ \E p \in DOMAIN solutions : ~r.grid[p[1]][p[2]].isNull
    /\ \E p \in DOMAIN solutions :
          /\ solutions[p].result.outcome = Success
          /\ NumLt(solutions[p].launchTime_s, ctx.startTime_s)
          /\ NumGt(solutions[p].totalDV_mps, NumMul(Num(1000), ctx.dvCap_kms))
    /\ \E p \in DOMAIN solutions :
          /\ solutions[p].result.outcome = Success
          /\ ExpectedOutcome(ctx, solutions[p]) = Fail_InsufficientDV
    /\ \E p \in DOMAIN solutions :
          /\ solutions[p].result.outcome = Success
          /\ ExpectedOutcome(ctx, solutions[p]) = Fail_Hyperbolic

\* A sweep with non-null cells and with successes downgraded for each of the
\* three reasons, one of them both launching in the past and above the cap
C11_Witness ==
    /\ gridPc = "done"
    /\ gridRun.sweep
    /\ HasDowngrades(gridContext(gridInput), gridRun.result,
                     SweepSolutions(revision, gridContext(gridInput),
                                    gridRun.result.grid))

\* launchAcceleration_mg is 0, negative or not finite
NoThrust(inputs) ==
    ~IsFinite(inputs.launchAcceleration_mg) \/ NumLe(inputs.launchAcceleration_mg, Zero)

\* The sum of failureCounts over all outcomes
FailureTotal(failureCounts) == SumCounts(failureCounts, Fail_CodePathNotImplemented)

NoCellSucceeds(r) ==
    /\ \A p \in GridPositions(r.grid) : r.grid[p[1]][p[2]].isNull
    /\ r.optimal = NullCell
    /\ r.minDV = Zero
    /\ r.maxDV = Zero

\* C27 as stated: a sweep whose cruise acceleration is 0, negative or not
\* finite has only null grid entries, optimal null, minDV = maxDV = 0, and
\* failure counts that sum to N x N.
C27_NoThrustNoSuccess ==
    (gridPc = "done" /\ gridRun.sweep /\ NoThrust(gridInput)) =>
        /\ NoCellSucceeds(gridRun.result)
        /\ Num(FailureTotal(gridRun.result.failureCounts))
              = NumMul(gridRun.N, gridRun.N)

\* One of the conditions of the early returns holds
ReturnsEarly(inputs) ==
    \/ inputs.early \in {"orbit", "body"}
    \/ ~IsFinite(inputs.startDateValue)
    \/ ~IsFinite(inputs.barycenterMu_m3s2)
    \/ NumLe(inputs.barycenterMu_m3s2, Zero)

\* C28: when an orbit name is not in the catalog, an orbit has no
\* heliocentric body, the game date does not parse, or the central body's mu
\* is not finite or not positive, computePorkchopGrid returns the empty
\* result (no grid, optimal null, minDV = maxDV = 0, no failure counts, no
\* best failure) and evaluates no cell.
C28_EarlyReturnIsEmpty ==
    (gridPc = "done" /\ ReturnsEarly(gridInput)) =>
        LET r == gridRun.result
        IN  /\ r.grid = <<>>
            /\ r.optimal = NullCell
            /\ r.minDV = Zero
            /\ r.maxDV = Zero
            /\ DOMAIN r.failureCounts = {}
            /\ r.bestFailureOutcome = NULL.outcome
            /\ gridRun.evaluations = 0
            /\ ~gridRun.sweep

\* A call with a central-body mu of exactly 0 has returned
C28_Witness ==
    /\ gridPc = "done"
    /\ gridInput.early = ""
    /\ IsFinite(gridInput.startDateValue)
    /\ gridInput.barycenterMu_m3s2 = Zero
    /\ gridRun.result = emptyResult

\* C29: after a sweep bestFailureOutcome is null exactly when failureCounts
\* is empty; otherwise it is an outcome other than Success that failureCounts
\* has with a positive count; failureCounts has no entry for Success.
C29_BestFailureIsCounted ==
    (gridPc = "done" /\ gridRun.sweep) =>
        LET r == gridRun.result
            best == r.bestFailureOutcome
        IN  /\ best = NULL.outcome <=> DOMAIN r.failureCounts = {}
            /\ best # NULL.outcome =>
                  /\ best \in DOMAIN r.failureCounts
                  /\ r.failureCounts[best] > 0
                  /\ best # Success
            /\ Success \notin DOMAIN r.failureCounts

\* A sweep with non-null cells and failures of several outcomes, whose best
\* failure is not the outcome counted most often
C29_Witness ==
    /\ gridPc = "done"
    /\ gridRun.sweep
    /\ NonNullPositions(gridRun.result.grid) # {}
    /\ LET r == gridRun.result
       IN  /\ Cardinality(DOMAIN r.failureCounts) >= 3
           /\ r.bestFailureOutcome \in DOMAIN r.failureCounts
           /\ \E o \in DOMAIN r.failureCounts :
                 r.failureCounts[o] > r.failureCounts[r.bestFailureOutcome]

\* The outcomes a result records: the keys of failureCounts and
\* bestFailureOutcome unless null
RecordedOutcomes(r) ==
    DOMAIN r.failureCounts
        \cup (IF r.bestFailureOutcome = NULL.outcome THEN {} ELSE {r.bestFailureOutcome})

\* The transit durations the evaluator computes for the cells of a sweep
SweepTransits(ctx, grid) ==
    {NumSub(cellInput(ctx, p[1] - 1, p[2] - 1).arrivalTime_s,
            cellInput(ctx, p[1] - 1, p[2] - 1).launchTime_s) : p \in GridPositions(grid)}

-----------------------------------------------------------------------------
(* Claims about usePorkchop *)

\* C4: whatever the interleaving of compute() calls and worker messages,
\* `result` is never the output of a superseded request: it is null until the
\* result of the latest request is delivered, and then it is that result.
C4_ResultOfLatestRequest ==
    /\ hookResult # NoResult =>
        /\ hookResult.from = workerRef
        /\ hookResult.data = WorkerOutput[revision][workers[workerRef].inputs]
    /\ (workerRef # 0 /\ workers[workerRef].status # "delivered") => hookResult = NoResult

\* The latest request's result is in `result` after an earlier worker was
\* terminated with its result posted but not delivered
C4_Witness ==
    /\ hookResult # NoResult
    /\ hookResult.from = workerRef
    /\ \E w \in 1 .. Len(workers) :
        /\ w < workerRef
        /\ workers[w].status = "terminated"
        /\ workers[w].discarded
        /\ workers[w].inputs # workers[workerRef].inputs

=============================================================================
